---- MODULE Spec2Model ----
(***************************************************************************)
(* Health-Lab-Report-Analyzer: the text-to-parameter extraction pipeline.  *)
(*   app/services/extraction_service.py  ExtractionService                 *)
(*   app/services/ocr_service.py         OCRService                        *)
(* Strings are sequences of one-character strings; the three code points   *)
(* MICRO SIGN, GREEK CAPITAL MU and GREEK SMALL MU are written "U+00B5",    *)
(* "U+039C" and "U+03BC".                                                    *)
(***************************************************************************)
EXTENDS Integers, Sequences, FiniteSets, TLC

VARIABLES
    text,        \* extract_parameters: the argument `text`
    pc,          \* extract_parameters: "idle", "loop" (inside the for loop), "returned", "raised"
    lines,       \* extract_parameters: text.split('\n')
    idx,         \* extract_parameters: 1-based index of the next line of the for loop
    parameters,  \* extract_parameters: the local list `parameters`
    result,      \* the list returned by the latest completed call
    calls,       \* how many calls of extract_parameters(text) have returned
    failing,     \* the registry entries for which the try block of _create_parameter raises
                 \* (a reference range without min or max, a rejected HealthParameter)
    probe,       \* _create_parameter alone: its arguments, [param_name, line, v]
    created,     \* _create_parameter alone: what it returned
    file_path,   \* extract_text_from_file: the extension of the argument `file_path`
    file_ext,    \* extract_text_from_file: the local `file_ext`
    pages,       \* how many pages the PDF at file_path has
    ocr_pc,      \* extract_text_from_file: where the call is
    pdf_text,    \* _extract_text_from_pdf: the local `text`
    extracted_text,  \* _ocr_pdf_pages: the local `extracted_text`
    page,        \* 1-based number of the next page of the running page loop
    tier,        \* per text-acquisition tier: "not_run", "running", "returned", "raised"
    tier_text,   \* per text-acquisition tier: the text held when the tier ended
    outcome,     \* what extract_text_from_file returned or raised
    held,        \* the files and images the call has acquired and not released
    ocr_page_text,   \* _ocr_pdf_pages: the local `page_text` of the page OCRed last
    file,            \* upload_file: the uploaded `file` (its name's extension, its size)
    str_prefix,      \* what str() puts before the detail of an HTTPException
    profile_store,   \* whether the profile store holds an active profile of the user
    upload_pc,       \* upload_file: where the request is
    profile_id,      \* upload_file: the local `profile_id`
    lab_report,      \* upload_file: the local `lab_report`, <<>> before save_file
    disk,            \* the files in the upload directory
    db,              \* the reports collection: <<>> or the one stored document
    tasks,           \* the background tasks added and not yet started
    response,        \* the HTTP status of the response, 0 before it
    task_pc,         \* process_uploaded_file: where the task is
    report,          \* process_uploaded_file: the local `report`, <<>> when None
    caught,          \* process_uploaded_file: the exception `e` of line 104
    notifications,   \* the notifications created, in order
    db_log,          \* process_uploaded_file: its DataService calls and whether each worked
    star_request,    \* toggle_report_star: the is_starred of the last request that was stored
    notification_error  \* process_uploaded_file: the exception its notification block caught

extractVars == <<text, pc, lines, idx, parameters, result, calls, failing>>
createVars == <<probe, created>>
ocrVars == <<file_path, file_ext, pages, ocr_pc, pdf_text, extracted_text, page, tier, tier_text,
            outcome, held, ocr_page_text>>
uploadVars == <<file, str_prefix, profile_store, upload_pc, profile_id, lab_report, disk, db,
               tasks, response, task_pc, report, caught, notifications, db_log,
               star_request, notification_error>>
vars == <<extractVars, createVars, ocrVars, uploadVars>>

(***************************************************************************)
(* Characters and the str methods the services use.                        *)
(***************************************************************************)
AsciiLower == <<"a","b","c","d","e","f","g","h","i","j","k","l","m","n","o","p","q","r","s","t","u","v","w","x","y","z">>
AsciiUpper == <<"A","B","C","D","E","F","G","H","I","J","K","L","M","N","O","P","Q","R","S","T","U","V","W","X","Y","Z">>
Digits == <<"0","1","2","3","4","5","6","7","8","9">>
Whitespace == {" ", "\t", "\r", "\n"}
Punctuation == {"/", "%", ".", ":", "^", "-", "_", ",", "(", ")", "+", "<", ">", "="}
MicroSign == "U+00B5"
GreekCapitalMu == "U+039C"
GreekSmallMu == "U+03BC"

Range(s) == {s[i] : i \in 1..Len(s)}

Chars ==
    Range(AsciiLower) \cup Range(AsciiUpper) \cup Range(Digits) \cup Whitespace
        \cup Punctuation \cup {MicroSign, GreekCapitalMu, GreekSmallMu}

\* str.lower() on one character: A-Z map to a-z, GREEK CAPITAL MU maps to GREEK
\* SMALL MU, MICRO SIGN and everything else is its own lower case.
LowerTable ==
    [c \in Chars |->
        IF c \in Range(AsciiUpper)
        THEN AsciiLower[CHOOSE i \in 1..Len(AsciiUpper) : AsciiUpper[i] = c]
        ELSE IF c = GreekCapitalMu THEN GreekSmallMu ELSE c]

\* str.upper() on one character: MICRO SIGN and GREEK SMALL MU both map to GREEK
\* CAPITAL MU.
UpperTable ==
    [c \in Chars |->
        IF c \in Range(AsciiLower)
        THEN AsciiUpper[CHOOSE i \in 1..Len(AsciiLower) : AsciiLower[i] = c]
        ELSE IF c \in {MicroSign, GreekSmallMu} THEN GreekCapitalMu ELSE c]

lower(s) == [i \in 1..Len(s) |-> LowerTable[s[i]]]

upper(s) == [i \in 1..Len(s) |-> UpperTable[s[i]]]

\* str.strip(): drop leading and trailing whitespace.
strip(s) ==
    LET keep == {i \in 1..Len(s) : s[i] \notin Whitespace}
    IN  IF keep = {} THEN <<>>
        ELSE SubSeq(s, CHOOSE i \in keep : \A j \in keep : i <= j,
                       CHOOSE i \in keep : \A j \in keep : i >= j)

\* str.split('\n'): the pieces between newlines; n newlines give n + 1 pieces.
RECURSIVE SplitFrom(_, _, _)
SplitFrom(s, i, cur) ==
    IF i > Len(s) THEN <<cur>>
    ELSE IF s[i] = "\n" THEN <<cur>> \o SplitFrom(s, i + 1, <<>>)
    ELSE SplitFrom(s, i + 1, Append(cur, s[i]))

split(s) == SplitFrom(s, 1, <<>>)

\* None, where a str is expected (no string holds the character "None").
None == <<"None">>

(***************************************************************************)
(* re.search(pattern, line, re.IGNORECASE): a backtracking matcher with    *)
(* Python's priorities (greedy and lazy repeats, ordered alternatives).    *)
(* A pattern is a sequence of atoms.                                       *)
(***************************************************************************)
Lit(s) == [t |-> "lit", s |-> s]                    \* the literal s
Set(cs) == [t |-> "set", cs |-> cs]                 \* [..]: one character of cs
Rep(cls, min, greedy) ==                            \* \d+ \d* \s+ \s* .*?
    [t |-> "rep", cls |-> cls, min |-> min, greedy |-> greedy]
Opt(r) == [t |-> "opt", r |-> r]                    \* (?:r)?
Alt(rs) == [t |-> "alt", rs |-> rs]                 \* (?:r1|r2|...)
Grp(n, r) == [t |-> "grp", n |-> n, r |-> r]        \* capturing group n

\* Case-insensitive equality of a pattern character p and a text character c:
\* the lower cases agree, or they are the two lower-case forms of mu, which
\* the re module treats as one letter under IGNORECASE.
IgnoreCaseEq(p, c) ==
    \/ LowerTable[p] = LowerTable[c]
    \/ {LowerTable[p], LowerTable[c]} \subseteq {MicroSign, GreekSmallMu}

InClass(cls, c) ==
    CASE cls = "d" -> c \in Range(Digits)
      [] cls = "s" -> c \in Whitespace
      [] cls = "dot" -> c # "\n"

LitAt(s, line, pos) ==
    /\ pos + Len(s) - 1 <= Len(line)
    /\ \A k \in 1..Len(s) : IgnoreCaseEq(s[k], line[pos + k - 1])

\* How many characters of class cls follow, starting at pos.
RunLen(cls, line, pos) ==
    LET bad == {i \in pos..Len(line) : ~InClass(cls, line[i])}
    IN  IF bad = {} THEN Len(line) - pos + 1
        ELSE (CHOOSE i \in bad : \A j \in bad : i <= j) - pos

NoCaps == [n \in 1..2 |-> <<0, 0>>]
NoMatch == [ok |-> FALSE, start |-> 0, end |-> 0, caps |-> NoCaps]

RECURSIVE Match(_, _, _, _)
RECURSIVE TryRep(_, _, _, _, _, _, _)
RECURSIVE TryAlts(_, _, _, _, _, _)

\* Match the atoms `todo` at pos; the first success in priority order.
Match(todo, line, pos, caps) ==
    IF Len(todo) = 0 THEN [ok |-> TRUE, start |-> 0, end |-> pos, caps |-> caps]
    ELSE
      LET a == Head(todo)
          rest == Tail(todo)
      IN  CASE a.t = "lit" ->
                 IF LitAt(a.s, line, pos)
                 THEN Match(rest, line, pos + Len(a.s), caps) ELSE NoMatch
            [] a.t = "set" ->
                 IF pos <= Len(line) /\ \E p \in a.cs : IgnoreCaseEq(p, line[pos])
                 THEN Match(rest, line, pos + 1, caps) ELSE NoMatch
            [] a.t = "rep" ->
                 LET max == RunLen(a.cls, line, pos)
                 IN  IF max < a.min THEN NoMatch
                     ELSE IF a.greedy
                          THEN TryRep(rest, line, pos, caps, max, a.min, -1)
                          ELSE TryRep(rest, line, pos, caps, a.min, max, 1)
            [] a.t = "opt" ->
                 LET taken == Match(a.r \o rest, line, pos, caps)
                 IN  IF taken.ok THEN taken ELSE Match(rest, line, pos, caps)
            [] a.t = "alt" -> TryAlts(a.rs, 1, rest, line, pos, caps)
            [] a.t = "grp" ->
                 Match(<<[t |-> "open", n |-> a.n]>> \o a.r
                           \o <<[t |-> "close", n |-> a.n]>> \o rest,
                       line, pos, caps)
            [] a.t = "open" ->
                 Match(rest, line, pos, [caps EXCEPT ![a.n] = <<pos, 0>>])
            [] a.t = "close" ->
                 Match(rest, line, pos, [caps EXCEPT ![a.n] = <<caps[a.n][1], pos>>])

\* A repeat that consumes n characters, n stepping from `n` to `last`.
TryRep(rest, line, pos, caps, n, last, step) ==
    LET r == Match(rest, line, pos + n, caps)
    IN  IF r.ok THEN r
        ELSE IF n = last THEN NoMatch
        ELSE TryRep(rest, line, pos, caps, n + step, last, step)

TryAlts(rs, k, rest, line, pos, caps) ==
    IF k > Len(rs) THEN NoMatch
    ELSE LET r == Match(rs[k] \o rest, line, pos, caps)
         IN  IF r.ok THEN r ELSE TryAlts(rs, k + 1, rest, line, pos, caps)

\* re.search: the match at the leftmost start position that has one.
RECURSIVE SearchFrom(_, _, _)
SearchFrom(pattern, line, start) ==
    IF start > Len(line) + 1 THEN NoMatch
    ELSE LET r == Match(pattern, line, start, NoCaps)
         IN  IF r.ok THEN [r EXCEPT !.start = start]
             ELSE SearchFrom(pattern, line, start + 1)

re_search(pattern, line) == SearchFrom(pattern, line, 1)

\* match.group(n) and match.lastindex of a successful match.
group(m, line, n) == SubSeq(line, m.caps[n][1], m.caps[n][2] - 1)

lastindex(m) == IF m.caps[2][2] > 0 THEN 2 ELSE 1

(***************************************************************************)
(* ExtractionService: the static registries.                               *)
(***************************************************************************)
LazyAny == Rep("dot", 0, FALSE)                                  \* .*?
DecimalValue ==                                                  \* (\d+\.?\d*)
    Grp(1, <<Rep("d", 1, TRUE), Opt(<<Lit(<<".">>)>>), Rep("d", 0, TRUE)>>)
UnitGroup(alts) == <<Rep("s", 0, TRUE), Opt(<<Grp(2, <<Alt(alts)>>)>>)>>  \* \s*(a|b)?
BloodPressure == Alt(<< <<Lit(<<"b","l","o","o","d"," ","p","r","e","s","s","u","r","e">>)>>, <<Lit(<<"b","p">>)>> >>)

\* _load_parameter_patterns: the dict in insertion order.
parameter_patterns == <<
    [name |-> "glucose", category |-> "blood",
     pattern |-> <<Lit(<<"g","l","u","c","o","s","e">>), LazyAny, DecimalValue>>
        \o UnitGroup(<< <<Lit(<<"m","g","/","d","l">>)>>, <<Lit(<<"m","m","o","l","/","l">>)>>, <<Lit(<<"m","g","%">>)>> >>)],
    [name |-> "cholesterol_total", category |-> "lipid",
     pattern |-> <<Opt(<<Lit(<<"t","o","t","a","l">>), Rep("s", 1, TRUE)>>), Lit(<<"c","h","o","l","e","s","t","e","r","o","l">>),
                   LazyAny, DecimalValue>>
        \o UnitGroup(<< <<Lit(<<"m","g","/","d","l">>)>>, <<Lit(<<"m","m","o","l","/","l">>)>> >>)],
    [name |-> "cholesterol_ldl", category |-> "lipid",
     pattern |-> <<Lit(<<"l","d","l">>), LazyAny, Lit(<<"c","h","o","l","e","s","t","e","r","o","l">>), LazyAny, DecimalValue>>
        \o UnitGroup(<< <<Lit(<<"m","g","/","d","l">>)>>, <<Lit(<<"m","m","o","l","/","l">>)>> >>)],
    [name |-> "cholesterol_hdl", category |-> "lipid",
     pattern |-> <<Lit(<<"h","d","l">>), LazyAny, Lit(<<"c","h","o","l","e","s","t","e","r","o","l">>), LazyAny, DecimalValue>>
        \o UnitGroup(<< <<Lit(<<"m","g","/","d","l">>)>>, <<Lit(<<"m","m","o","l","/","l">>)>> >>)],
    [name |-> "triglycerides", category |-> "lipid",
     pattern |-> <<Lit(<<"t","r","i","g","l","y","c","e","r","i","d","e","s">>), LazyAny, DecimalValue>>
        \o UnitGroup(<< <<Lit(<<"m","g","/","d","l">>)>>, <<Lit(<<"m","m","o","l","/","l">>)>> >>)],
    [name |-> "hemoglobin", category |-> "blood",
     pattern |-> <<Lit(<<"h">>), Set({"a", "e"}), Lit(<<"m","o","g","l","o","b","i","n">>), LazyAny, DecimalValue>>
        \o UnitGroup(<< <<Lit(<<"g","/","d","l">>)>>, <<Lit(<<"g","/","l">>)>>, <<Lit(<<"g","m","%">>)>> >>)],
    [name |-> "hematocrit", category |-> "blood",
     pattern |-> <<Lit(<<"h","e","m","a","t","o","c","r","i","t">>), LazyAny, DecimalValue>>
        \o UnitGroup(<< <<Lit(<<"%">>)>>, <<Lit(<<"p","e","r","c","e","n","t">>)>> >>)],
    [name |-> "blood_pressure_systolic", category |-> "blood",
     pattern |-> <<BloodPressure, LazyAny, Grp(1, <<Rep("d", 1, TRUE)>>), Lit(<<"/">>),
                   Rep("d", 1, TRUE)>>
        \o UnitGroup(<< <<Lit(<<"m","m","h","g">>)>> >>)],
    [name |-> "blood_pressure_diastolic", category |-> "blood",
     pattern |-> <<BloodPressure, LazyAny, Rep("d", 1, TRUE), Lit(<<"/">>),
                   Grp(1, <<Rep("d", 1, TRUE)>>)>>
        \o UnitGroup(<< <<Lit(<<"m","m","h","g">>)>> >>)],
    [name |-> "creatinine", category |-> "kidney",
     pattern |-> <<Lit(<<"c","r","e","a","t","i","n","i","n","e">>), LazyAny, DecimalValue>>
        \o UnitGroup(<< <<Lit(<<"m","g","/","d","l">>)>>, <<Lit(<<"u","m","o","l","/","l">>)>>, <<Lit(<<"U+00B5","m","o","l","/","l">>)>> >>)],
    [name |-> "bun", category |-> "kidney",
     pattern |-> <<Alt(<< <<Lit(<<"b","u","n">>)>>, <<Lit(<<"u","r","e","a">>)>> >>), LazyAny, DecimalValue>>
        \o UnitGroup(<< <<Lit(<<"m","g","/","d","l">>)>>, <<Lit(<<"m","m","o","l","/","l">>)>> >>)],
    [name |-> "alt", category |-> "liver",
     pattern |-> <<Alt(<< <<Lit(<<"a","l","t">>)>>, <<Lit(<<"a","l","a","t">>)>>, <<Lit(<<"s","g","p","t">>)>> >>),
                   LazyAny, DecimalValue>>
        \o UnitGroup(<< <<Lit(<<"u","/","l">>)>>, <<Lit(<<"i","u","/","l">>)>> >>)],
    [name |-> "ast", category |-> "liver",
     pattern |-> <<Alt(<< <<Lit(<<"a","s","t">>)>>, <<Lit(<<"a","s","a","t">>)>>, <<Lit(<<"s","g","o","t">>)>> >>),
                   LazyAny, DecimalValue>>
        \o UnitGroup(<< <<Lit(<<"u","/","l">>)>>, <<Lit(<<"i","u","/","l">>)>> >>)],
    [name |-> "platelets", category |-> "blood",
     pattern |-> <<Lit(<<"p","l","a","t","e","l","e","t","s">>), LazyAny, DecimalValue>>
        \o UnitGroup(<< <<Lit(<<"l","a","k","h">>), Opt(<<Lit(<<"s">>)>>)>>, <<Lit(<<"/","c","u","m","m">>)>>,
                        <<Lit(<<"x","1","0","^","3">>)>> >>)],
    [name |-> "wbc", category |-> "blood",
     pattern |-> <<Alt(<< <<Lit(<<"w","b","c">>)>>,
                          <<Lit(<<"w","h","i","t","e"," ","b","l","o","o","d"," ","c","e","l","l">>), Opt(<<Lit(<<"s">>)>>)>> >>),
                   LazyAny, DecimalValue>>
        \o UnitGroup(<< <<Lit(<<"t","h","o","u","s","a","n","d">>), Opt(<<Lit(<<"s">>)>>)>>, <<Lit(<<"/","c","u","m","m">>)>>,
                        <<Lit(<<"x","1","0","^","3">>)>> >>)],
    [name |-> "rbc", category |-> "blood",
     pattern |-> <<Alt(<< <<Lit(<<"r","b","c">>)>>,
                          <<Lit(<<"r","e","d"," ","b","l","o","o","d"," ","c","e","l","l">>), Opt(<<Lit(<<"s">>)>>)>> >>),
                   LazyAny, DecimalValue>>
        \o UnitGroup(<< <<Lit(<<"m","i","l","l","i","o","n">>), Opt(<<Lit(<<"s">>)>>)>>, <<Lit(<<"/","c","u","m","m">>)>>,
                        <<Lit(<<"x","1","0","^","6">>)>> >>)],
    [name |-> "vitamin_d", category |-> "vitamin",
     pattern |-> <<Lit(<<"v","i","t","a","m","i","n">>), Rep("s", 0, TRUE), Lit(<<"d">>), LazyAny, DecimalValue>>
        \o UnitGroup(<< <<Lit(<<"n","g","/","m","l">>)>>, <<Lit(<<"n","m","o","l","/","l">>)>> >>)],
    [name |-> "vitamin_b12", category |-> "vitamin",
     pattern |-> <<Lit(<<"v","i","t","a","m","i","n">>), Rep("s", 0, TRUE), Lit(<<"b","1","2">>), LazyAny,
                   DecimalValue>>
        \o UnitGroup(<< <<Lit(<<"p","g","/","m","l">>)>>, <<Lit(<<"p","m","o","l","/","l">>)>> >>)],
    [name |-> "tsh", category |-> "hormone",
     pattern |-> <<Lit(<<"t","s","h">>), LazyAny, DecimalValue>>
        \o UnitGroup(<< <<Lit(<<"m","i","u","/","l">>)>>, <<Lit(<<"U+00B5","i","u","/","m","l">>)>> >>)]
>>

PatternNames == {parameter_patterns[k].name : k \in 1..Len(parameter_patterns)}

\* A decimal number n / 10^d, as the source writes it (12.0 is n = 120, d = 1).
Dec(n, d) == [n |-> n, d |-> d]

\* _load_reference_ranges
reference_ranges == [p \in PatternNames |->
    CASE p = "glucose" -> [min |-> Dec(70, 0), max |-> Dec(100, 0), unit |-> <<"m","g","/","d","l">>]
      [] p = "cholesterol_total" -> [min |-> Dec(0, 0), max |-> Dec(200, 0), unit |-> <<"m","g","/","d","l">>]
      [] p = "cholesterol_ldl" -> [min |-> Dec(0, 0), max |-> Dec(100, 0), unit |-> <<"m","g","/","d","l">>]
      [] p = "cholesterol_hdl" -> [min |-> Dec(40, 0), max |-> Dec(999, 0), unit |-> <<"m","g","/","d","l">>]
      [] p = "triglycerides" -> [min |-> Dec(0, 0), max |-> Dec(150, 0), unit |-> <<"m","g","/","d","l">>]
      [] p = "hemoglobin" -> [min |-> Dec(120, 1), max |-> Dec(160, 1), unit |-> <<"g","/","d","l">>]
      [] p = "hematocrit" -> [min |-> Dec(36, 0), max |-> Dec(48, 0), unit |-> <<"%">>]
      [] p = "blood_pressure_systolic" -> [min |-> Dec(90, 0), max |-> Dec(120, 0), unit |-> <<"m","m","H","g">>]
      [] p = "blood_pressure_diastolic" -> [min |-> Dec(60, 0), max |-> Dec(80, 0), unit |-> <<"m","m","H","g">>]
      [] p = "creatinine" -> [min |-> Dec(6, 1), max |-> Dec(12, 1), unit |-> <<"m","g","/","d","l">>]
      [] p = "bun" -> [min |-> Dec(7, 0), max |-> Dec(20, 0), unit |-> <<"m","g","/","d","l">>]
      [] p = "alt" -> [min |-> Dec(7, 0), max |-> Dec(40, 0), unit |-> <<"U","/","L">>]
      [] p = "ast" -> [min |-> Dec(10, 0), max |-> Dec(40, 0), unit |-> <<"U","/","L">>]
      [] p = "platelets" -> [min |-> Dec(15, 1), max |-> Dec(45, 1), unit |-> <<"l","a","k","h","s">>]
      [] p = "wbc" -> [min |-> Dec(40, 1), max |-> Dec(110, 1), unit |-> <<"t","h","o","u","s","a","n","d","s">>]
      [] p = "rbc" -> [min |-> Dec(42, 1), max |-> Dec(54, 1), unit |-> <<"m","i","l","l","i","o","n","s">>]
      [] p = "vitamin_d" -> [min |-> Dec(30, 0), max |-> Dec(100, 0), unit |-> <<"n","g","/","m","l">>]
      [] p = "vitamin_b12" -> [min |-> Dec(200, 0), max |-> Dec(900, 0), unit |-> <<"p","g","/","m","l">>]
      [] p = "tsh" -> [min |-> Dec(4, 1), max |-> Dec(40, 1), unit |-> <<"m","I","U","/","L">>]]

\* _load_unit_normalizations: (key, canonical form) pairs.
unit_normalizations == <<
    <<<<"m","g","%">>, <<"m","g","/","d","l">>>>,
    <<<<"g","m","%">>, <<"g","/","d","l">>>>,
    <<<<"U+00B5","m","o","l","/","l">>, <<"u","m","o","l","/","l">>>>,
    <<<<"i","u","/","l">>, <<"U","/","L">>>>,
    <<<<"U+00B5","i","u","/","m","l">>, <<"m","I","U","/","L">>>>,
    <<<<"m","i","u","/","l">>, <<"m","I","U","/","L">>>>
>>

AliasKeys == {unit_normalizations[k][1] : k \in 1..Len(unit_normalizations)}

\* dict.get(key, default) on unit_normalizations
unit_normalizations_get(key, default) ==
    IF key \in AliasKeys
    THEN unit_normalizations[CHOOSE k \in 1..Len(unit_normalizations) :
                                 unit_normalizations[k][1] = key][2]
    ELSE default

\* name_mappings of _format_parameter_name
name_mappings == [p \in PatternNames |->
    CASE p = "glucose" -> "Glucose"
      [] p = "cholesterol_total" -> "Total Cholesterol"
      [] p = "cholesterol_ldl" -> "LDL Cholesterol"
      [] p = "cholesterol_hdl" -> "HDL Cholesterol"
      [] p = "triglycerides" -> "Triglycerides"
      [] p = "hemoglobin" -> "Hemoglobin"
      [] p = "hematocrit" -> "Hematocrit"
      [] p = "blood_pressure_systolic" -> "Systolic BP"
      [] p = "blood_pressure_diastolic" -> "Diastolic BP"
      [] p = "creatinine" -> "Creatinine"
      [] p = "bun" -> "BUN"
      [] p = "alt" -> "ALT"
      [] p = "ast" -> "AST"
      [] p = "platelets" -> "Platelets"
      [] p = "wbc" -> "WBC Count"
      [] p = "rbc" -> "RBC Count"
      [] p = "vitamin_d" -> "Vitamin D"
      [] p = "vitamin_b12" -> "Vitamin B12"
      [] p = "tsh" -> "TSH"]

(***************************************************************************)
(* Numbers: float(value_str) and the float comparisons of the classifier.  *)
(* A float is kept as the exact decimal n / 10^d that its literal denotes.  *)
(***************************************************************************)
RECURSIVE Pow10(_)
Pow10(d) == IF d = 0 THEN 1 ELSE 10 * Pow10(d - 1)

DigitValue(c) == (CHOOSE i \in 1..Len(Digits) : Digits[i] = c) - 1

RECURSIVE IntOfDigits(_, _)
IntOfDigits(s, acc) ==
    IF Len(s) = 0 THEN acc ELSE IntOfDigits(Tail(s), 10 * acc + DigitValue(Head(s)))

\* The literals float() accepts among the strings (\d+\.?\d*) and (\d+) capture:
\* digits with at most one point; any other string raises ValueError.
IsFloatLiteral(s) ==
    /\ \E i \in 1..Len(s) : s[i] \in Range(Digits)
    /\ \A i \in 1..Len(s) : s[i] \in Range(Digits) \cup {"."}
    /\ Cardinality({i \in 1..Len(s) : s[i] = "."}) <= 1

float(s) ==
    LET dots == {i \in 1..Len(s) : s[i] = "."}
        digs == SelectSeq(s, LAMBDA c : c # ".")
    IN  Dec(IntOfDigits(digs, 0),
            IF dots = {} THEN 0 ELSE Len(s) - (CHOOSE i \in dots : TRUE))

Less(a, b) == a.n * Pow10(b.d) < b.n * Pow10(a.d)

Times(a, b) == Dec(a.n * b.n, a.d + b.d)

\* A `value` of HealthParameter: Union[float, str].
FloatValue(f) == [isfloat |-> TRUE, f |-> f, s |-> <<>>]
StrValue(s) == [isfloat |-> FALSE, f |-> Dec(0, 0), s |-> s]

\* str(x) of a number as written in reference_ranges: 70 -> "70", 12.0 -> "12.0".
RECURSIVE NatToStr(_)
NatToStr(n) == IF n < 10 THEN <<Digits[n + 1]>> ELSE Append(NatToStr(n \div 10), Digits[(n % 10) + 1])

RECURSIVE FracToStr(_, _)
FracToStr(n, d) == IF d = 0 THEN <<>> ELSE Append(FracToStr(n \div 10, d - 1), Digits[(n % 10) + 1])

NumToStr(x) ==
    IF x.d = 0 THEN NatToStr(x.n)
    ELSE NatToStr(x.n \div Pow10(x.d)) \o <<".">> \o FracToStr(x.n % Pow10(x.d), x.d)

(***************************************************************************)
(* ExtractionService: the methods.                                         *)
(***************************************************************************)
CriticalLowFactor == Dec(5, 1)     \* the 0.5 of ref_range["min"] * 0.5
CriticalHighFactor == Dec(2, 0)    \* the 2 of ref_range["max"] * 2

\* _determine_status with the low boundary taken inclusively (value <= min).
_determine_status_inclusive(param_name, value) ==
    IF param_name \notin DOMAIN reference_ranges THEN "normal"
    ELSE IF ~value.isfloat THEN "normal"
    ELSE
      LET value_float == value.f
          ref_range == reference_ranges[param_name]
      IN  IF ~Less(ref_range.min, value_float)
          THEN IF Less(value_float, Times(ref_range.min, CriticalLowFactor))
               THEN "critical" ELSE "low"
          ELSE IF Less(ref_range.max, value_float)
          THEN IF Less(Times(ref_range.max, CriticalHighFactor), value_float)
               THEN "critical" ELSE "high"
          ELSE "normal"

\* _determine_status(param_name, value)
_determine_status(param_name, value) ==
    IF param_name \notin DOMAIN reference_ranges THEN "normal"
    ELSE IF ~value.isfloat THEN "normal"        \* float(value) raises ValueError
    ELSE
      LET value_float == value.f
          ref_range == reference_ranges[param_name]
      IN  IF Less(value_float, ref_range.min)
          THEN IF Less(value_float, Times(ref_range.min, CriticalLowFactor))
               THEN "critical" ELSE "low"
          ELSE IF Less(ref_range.max, value_float)
          THEN IF Less(Times(ref_range.max, CriticalHighFactor), value_float)
               THEN "critical" ELSE "high"
          ELSE "normal"

\* _get_reference_range_string(param_name)
_get_reference_range_string(param_name) ==
    IF param_name \notin DOMAIN reference_ranges THEN <<>>
    ELSE LET ref_range == reference_ranges[param_name]
         IN  strip(NumToStr(ref_range.min) \o <<"-">> \o NumToStr(ref_range.max)
                       \o <<" ">> \o ref_range.unit)

\* _format_parameter_name(param_name). Every registry key is a key of
\* name_mappings, so the title-casing default of .get() is never taken; it is
\* kept as the identifier itself.
_format_parameter_name(param_name) ==
    IF param_name \in DOMAIN name_mappings THEN name_mappings[param_name] ELSE param_name

\* The unit normalisation with the captured token, not its lower-cased form, as
\* the default of the alias lookup.
NormalizeUnitKeepCase(unit) ==
    IF unit = None \/ Len(unit) = 0 THEN unit
    ELSE LET u == strip(lower(unit)) IN unit_normalizations_get(u, unit)

\* The unit normalisation of _create_parameter: lower(), strip(), alias lookup.
NormalizeUnit(unit) ==
    IF unit = None \/ Len(unit) = 0 THEN unit
    ELSE LET u == strip(lower(unit)) IN unit_normalizations_get(u, u)

\* An exception on its way up the call stack.
Exception == <<[raised |-> TRUE]>>

\* The try block of _create_parameter (lines 160-190); `id` is the value
\* uuid.uuid4() returns in this call. The result is <<param>>, or Exception when
\* a statement of the block raises, which happens for the entries in `failing`.
_create_parameter_try(param_name, match, original_line, category, id) ==
    LET value_str == group(match, original_line, 1)
        unit == IF lastindex(match) > 1 THEN group(match, original_line, 2) ELSE None
        value == IF IsFloatLiteral(value_str) THEN FloatValue(float(value_str))
                 ELSE StrValue(value_str)
    IN  IF param_name \in failing THEN Exception
        ELSE << [id |-> id,
                 name |-> _format_parameter_name(param_name),
                 value |-> value,
                 unit |-> NormalizeUnit(unit),
                 reference_range |-> _get_reference_range_string(param_name),
                 status |-> _determine_status(param_name, value),
                 category |-> category,
                 extracted_text |-> original_line] >>

\* _create_parameter without its `except Exception` handler.
_create_parameter_unhandled(param_name, match, original_line, category, id) ==
    _create_parameter_try(param_name, match, original_line, category, id)

\* _create_parameter(param_name, match, original_line, category): the try block
\* and `except Exception: return None` (lines 191-192). The result is <<param>>,
\* or <<>> for None.
_create_parameter(param_name, match, original_line, category, id) ==
    LET r == _create_parameter_try(param_name, match, original_line, category, id)
    IN  IF r = Exception THEN <<>> ELSE r

\* _deduplicate_parameters(parameters): the loop over `parameters` from index i.
RECURSIVE DeduplicateLoop(_, _, _, _)
DeduplicateLoop(params, i, seen_names, unique_parameters) ==
    IF i > Len(params) THEN unique_parameters
    ELSE IF params[i].name \notin seen_names
         THEN DeduplicateLoop(params, i + 1, seen_names \cup {params[i].name},
                              Append(unique_parameters, params[i]))
         ELSE DeduplicateLoop(params, i + 1, seen_names, unique_parameters)

\* Mutants of _deduplicate_parameters: seen_names.add() forgotten (nothing is
\* ever seen); the last record of a name kept in the first one's place (a dict
\* keyed by name); seen_names shared between calls instead of local.
_deduplicate_without_add(params) == params

_deduplicate_keep_last(params) ==
    LET firsts == DeduplicateLoop(params, 1, {}, <<>>)
    IN  [k \in 1..Len(firsts) |->
            params[CHOOSE i \in 1..Len(params) :
                      /\ params[i].name = firsts[k].name
                      /\ \A j \in 1..Len(params) : params[j].name = firsts[k].name => j <= i]]

_deduplicate_shared_seen(params) ==
    DeduplicateLoop(params, 1, {result.value[i].name : i \in 1..Len(result.value)}, <<>>)

_deduplicate_parameters(params) == DeduplicateLoop(params, 1, {}, <<>>)

\* Mutant of SkipLine: the length bound off by one.
SkipLineBelowFour(line) == Len(line) = 0 \/ Len(line) < 4

\* The line filter of extract_parameters: `if not line or len(line) < 5: continue`.
SkipLine(line) == Len(line) = 0 \/ Len(line) < 5

\* Mutant of PatternLoop: the `break` is missing, so every matching entry appends.
RECURSIVE PatternLoopNoBreak(_, _, _, _)
PatternLoopNoBreak(line, k, acc, id) ==
    IF k > Len(parameter_patterns) THEN acc
    ELSE
      LET pattern_info == parameter_patterns[k]
          match == re_search(pattern_info.pattern, line)
          param == _create_parameter(pattern_info.name, match, line,
                                     pattern_info.category, id)
      IN  IF match.ok /\ param = Exception THEN Exception
          ELSE IF match.ok /\ Len(param) > 0
          THEN PatternLoopNoBreak(line, k + 1, Append(acc, param[1]), id)
          ELSE PatternLoopNoBreak(line, k + 1, acc, id)

\* Mutant of PatternLoop: the loop also breaks when _create_parameter returns
\* None, so a failed construction ends the work on the line.
RECURSIVE PatternLoopBreakOnNone(_, _, _, _)
PatternLoopBreakOnNone(line, k, acc, id) ==
    IF k > Len(parameter_patterns) THEN acc
    ELSE
      LET pattern_info == parameter_patterns[k]
          match == re_search(pattern_info.pattern, line)
          param == _create_parameter(pattern_info.name, match, line,
                                     pattern_info.category, id)
      IN  IF match.ok /\ param = Exception THEN Exception
          ELSE IF match.ok
          THEN (IF Len(param) > 0 THEN Append(acc, param[1]) ELSE acc)
          ELSE PatternLoopBreakOnNone(line, k + 1, acc, id)

\* The inner for loop of extract_parameters over the registry, from entry k on:
\* the first entry whose pattern matches and whose parameter is built appends it
\* and breaks. The result is the list `parameters` after the loop, or Exception
\* when a call in the loop raises.
RECURSIVE PatternLoop(_, _, _, _)
PatternLoop(line, k, acc, id) ==
    IF k > Len(parameter_patterns) THEN acc
    ELSE
      LET pattern_info == parameter_patterns[k]
          match == re_search(pattern_info.pattern, line)
          param == _create_parameter(pattern_info.name, match, line,
                                     pattern_info.category, id)
      IN  IF match.ok /\ param = Exception THEN Exception
          ELSE IF match.ok /\ Len(param) > 0
          THEN Append(acc, param[1])
          ELSE PatternLoop(line, k + 1, acc, id)

(***************************************************************************)
(* Inputs of extract_parameters.                                           *)
(***************************************************************************)
MaxLines == 2
MaxCalls == 2

SampleLines == {
    <<"G","l","u","c","o","s","e",":"," ","9","0"," ","m","g","/","d","l">>,
    <<"G","l","u","c","o","s","e"," ","9","5"," ","m","g","/","d","l">>,
    <<"L","D","L"," ","C","h","o","l","e","s","t","e","r","o","l"," ","1","3","0"," ","M","G","/","D","L">>,
    <<"B","P"," ","1","2","0","/","8","0"," ","m","m","H","g">>,
    <<"H","e","m","o","g","l","o","b","i","n",","," ","g","l","u","c","o","s","e"," ","1","3",".","5"," ","g","m","%">>,
    <<"t","s","h","1">>,
    <<" "," ","t","s","h"," ","1"," ">>,
    <<"P","a","t","i","e","n","t",":"," ","A","-","1">>,
    <<>> }

RECURSIVE Join(_)
Join(ls) == IF Len(ls) = 1 THEN ls[1] ELSE ls[1] \o <<"\n">> \o Join(Tail(ls))

Texts == {Join(ls) : ls \in UNION {[1..n -> SampleLines] : n \in 1..MaxLines}}

\* The values uuid.uuid4() can return.
UUIDs == {"uuid-a", "uuid-b"}

NoResult == [returned |-> FALSE, value |-> <<>>]
Returned(v) == [returned |-> TRUE, value |-> v]

(***************************************************************************)
(* extract_parameters as a state machine: one step per line of the text.   *)
(***************************************************************************)
\* No call of extract_parameters is made.
ExtractOff ==
    /\ text = <<>>
    /\ pc = "off"
    /\ lines = <<>>
    /\ idx = 0
    /\ parameters = <<>>
    /\ result = NoResult
    /\ calls = 0
    /\ failing = {}

\* The service is constructed and `text` is the argument of the calls to come.
ExtractInit(inputs) ==
    /\ text \in inputs
    /\ pc = "idle"
    /\ lines = <<>>
    /\ idx = 0
    /\ parameters = <<>>
    /\ result = NoResult
    /\ calls = 0
    /\ failing = {}

\* extract_parameters(text): lines 14-15
Call ==
    /\ pc \in {"idle", "returned"}
    /\ calls < MaxCalls
    /\ parameters' = <<>>
    /\ lines' = split(text)
    /\ idx' = 1
    /\ pc' = "loop"
    /\ UNCHANGED <<text, result, calls, failing, createVars, ocrVars, uploadVars>>

\* One iteration of `for line in lines` (lines 17-32).
ProcessLine ==
    /\ pc = "loop"
    /\ idx <= Len(lines)
    /\ LET line == strip(lines[idx])
       IN  IF SkipLine(line)
           THEN parameters' = parameters /\ idx' = idx + 1 /\ pc' = pc
           ELSE \E id \in UUIDs :
                  LET after == PatternLoop(line, 1, parameters, id)
                  IN  IF after = Exception
                      THEN parameters' = parameters /\ idx' = idx /\ pc' = "raised"
                      ELSE parameters' = after /\ idx' = idx + 1 /\ pc' = pc
    /\ UNCHANGED <<text, lines, result, calls, failing, createVars, ocrVars, uploadVars>>

\* return self._deduplicate_parameters(parameters) (line 34)
Return ==
    /\ pc = "loop"
    /\ idx > Len(lines)
    /\ result' = Returned(_deduplicate_parameters(parameters))
    /\ calls' = calls + 1
    /\ pc' = "returned"
    /\ UNCHANGED <<text, lines, idx, parameters, failing, createVars, ocrVars, uploadVars>>

(***************************************************************************)
(* _create_parameter on its own: one registry entry's pattern is matched   *)
(* against one line and the parameter is built from the match.             *)
(***************************************************************************)
\* A line that the pattern of each registry entry matches, up to the value.
HostPrefix == [p \in PatternNames |->
    CASE p = "glucose" -> <<"G","l","u","c","o","s","e"," ">>
      [] p = "cholesterol_total" -> <<"T","o","t","a","l"," ","C","h","o","l","e","s","t","e","r","o","l"," ">>
      [] p = "cholesterol_ldl" -> <<"L","D","L"," ","C","h","o","l","e","s","t","e","r","o","l"," ">>
      [] p = "cholesterol_hdl" -> <<"H","D","L"," ","C","h","o","l","e","s","t","e","r","o","l"," ">>
      [] p = "triglycerides" -> <<"T","r","i","g","l","y","c","e","r","i","d","e","s"," ">>
      [] p = "hemoglobin" -> <<"H","e","m","o","g","l","o","b","i","n"," ">>
      [] p = "hematocrit" -> <<"H","e","m","a","t","o","c","r","i","t"," ">>
      [] p = "blood_pressure_systolic" -> <<"B","P"," ">>
      [] p = "blood_pressure_diastolic" -> <<"B","P"," ","1","1","0","/">>
      [] p = "creatinine" -> <<"C","r","e","a","t","i","n","i","n","e"," ">>
      [] p = "bun" -> <<"U","r","e","a"," ">>
      [] p = "alt" -> <<"S","G","P","T"," ">>
      [] p = "ast" -> <<"S","G","O","T"," ">>
      [] p = "platelets" -> <<"P","l","a","t","e","l","e","t","s"," ">>
      [] p = "wbc" -> <<"W","B","C"," ">>
      [] p = "rbc" -> <<"R","B","C"," ">>
      [] p = "vitamin_d" -> <<"V","i","t","a","m","i","n"," ","D"," ">>
      [] p = "vitamin_b12" -> <<"V","i","t","a","m","i","n"," ","B","1","2"," ">>
      [] p = "tsh" -> <<"T","S","H"," ">>]

\* What follows the value on the line.
HostSuffix(p) == IF p = "blood_pressure_systolic" THEN <<"/","7","0">> ELSE <<>>

IntegerOnly == {"blood_pressure_systolic", "blood_pressure_diastolic"}

\* x as a whole number of thousandths.
Thousandths(x) == x.n * Pow10(3 - x.d)

\* The values around the four thresholds of an entry's range: each threshold,
\* and one step (0.01, or 1 for the integer-only patterns) below and above it.
ValuesAround(p) ==
    LET r == reference_ranges[p]
        ts == {Thousandths(r.min), Thousandths(r.max),
               Thousandths(Times(r.min, CriticalLowFactor)),
               Thousandths(Times(r.max, CriticalHighFactor))}
    IN  IF p \in IntegerOnly
        THEN {Dec(n, 0) : n \in {m \in {(t \div 1000) + e : t \in ts, e \in {-1, 0, 1}} : m >= 0}}
        ELSE {Dec(n, 2) : n \in {m \in {(t \div 10) + e : t \in ts, e \in {-1, 0, 1}} : m >= 0}}

\* What may follow the reading on the rest of the line.
RestOfLine == {<<>>, <<" ","m","m","o","l","/","l">>, <<" ","U","/","L"," ","(","7","-","4","0",")">>}

ValueProbes ==
    UNION {{[kind |-> "value", param_name |-> p, v |-> v,
             line |-> HostPrefix[p] \o NumToStr(v) \o HostSuffix(p) \o rest]
               : v \in ValuesAround(p), rest \in RestOfLine} : p \in PatternNames}

\* The letter-case forms of a character.
CaseForms(c) ==
    {c, LowerTable[c], UpperTable[c], LowerTable[UpperTable[c]], UpperTable[LowerTable[c]]}

\* Every spelling of s in upper and lower case letters.
RECURSIVE CaseVariants(_)
CaseVariants(s) ==
    IF Len(s) = 0 THEN {<<>>}
    ELSE {<<c>> \o r : c \in CaseForms(Head(s)), r \in CaseVariants(Tail(s))}

\* Unit tokens and a registry entry whose pattern captures each.
UnitHosts == {
    <<"glucose", <<"m","g","%">>>>, <<"hemoglobin", <<"g","m","%">>>>, <<"creatinine", <<"U+00B5","m","o","l","/","l">>>>,
    <<"alt", <<"i","u","/","l">>>>, <<"tsh", <<"U+00B5","i","u","/","m","l">>>>, <<"tsh", <<"m","i","u","/","l">>>>,
    <<"glucose", <<"m","g","/","d","l">>>>, <<"blood_pressure_systolic", <<"m","m","h","g">>>>,
    <<"ast", <<"u","/","l">>>>, <<"creatinine", <<"u","m","o","l","/","l">>>> }

\* The reading that precedes the unit on a probe line.
HostReading(p) == IF p \in IntegerOnly THEN Dec(110, 0) ELSE Dec(10, 1)

UnitProbes ==
    UNION {{[kind |-> "unit", param_name |-> h[1], v |-> HostReading(h[1]),
             line |-> HostPrefix[h[1]] \o NumToStr(HostReading(h[1])) \o HostSuffix(h[1])
                         \o before \o u \o after]
               : u \in CaseVariants(h[2]), before \in {<<>>, <<" "," ">>},
                 after \in {<<>>, <<" ","H">>}} : h \in UnitHosts}

Probes == ValueProbes \cup UnitProbes

PatternOf(p) ==
    parameter_patterns[CHOOSE k \in 1..Len(parameter_patterns) :
                           parameter_patterns[k].name = p]

\* No call of _create_parameter on its own is made.
CreateOff == probe = <<>> /\ created = <<>>

CreateInit == probe \in Probes /\ created = <<>>

\* re.search(pattern, line, re.IGNORECASE) and, on a match, _create_parameter
\* (lines 27-29) for the entry and the line of the probe.
CreateParameter ==
    /\ probe # <<>>
    /\ created = <<>>
    /\ LET entry == PatternOf(probe.param_name)
           match == re_search(entry.pattern, probe.line)
       IN  /\ match.ok
           /\ \E id \in UUIDs :
                created' = _create_parameter(entry.name, match, probe.line,
                                             entry.category, id)
    /\ UNCHANGED <<probe, extractVars, ocrVars, uploadVars>>

(***************************************************************************)
(* OCRService (ocr_service.py): extract_text_from_file and the PDF         *)
(* cascade. What pdfplumber, PyPDF2, pdf2image, PIL and pytesseract do     *)
(* with the file is an input: each call either raises or yields one of a   *)
(* few page texts.                                                         *)
(***************************************************************************)
MaxPdfPages == 2      \* the PDFs tried have 0..MaxPdfPages pages

MinTextLength == 50   \* `len(text.strip()) < 50`
LastPage == 10        \* convert_from_path(..., last_page=10)

\* The paths tried, by their extension as os.path.splitext returns it.
Extensions == {<<".","p","d","f">>, <<".","P","D","F">>, <<".","j","p","g">>, <<".","j","p","e","g">>, <<".","p","n","g">>, <<".","t","x","t">>, <<>>}

PdfExtension == <<".","p","d","f">>
ImageExtensions == {<<".","j","p","g">>, <<".","j","p","e","g">>, <<".","p","n","g">>}

\* The page texts a reader or the OCR engine yields. "empty" is None or "";
\* "almost" has MinTextLength - 1 characters and "long" has MinTextLength.
PageKinds == {"empty", "short", "almost", "long"}
OcrPageKinds == PageKinds \cup {"blank"}
\* The texts the OCR of an image file yields: those, and "report", a lab report
\* of three lines with a critical, a normal and a high value.
ImageKinds == OcrPageKinds \cup {"report"}

PageText == [reader \in {"pdfplumber", "PyPDF2", "ocr"} |-> [kind \in ImageKinds |->
    CASE kind = "empty" -> <<>>
      [] kind = "report" -> <<"G","L","U","C","O","S","E"," ","3","0","\n","T","S","H"," ","2",".","0","\n","H","E","M","O","G","L","O","B","I","N"," ","1","9","\n">>
      [] kind = "blank" -> <<" ","\n">>
      [] kind = "short" ->
           (CASE reader = "pdfplumber" -> <<"G","l","u","c","o","s","e"," ","9","0">>
              [] reader = "PyPDF2" -> <<"g","l","u","c","o","s","e"," ","9","1">>
              [] reader = "ocr" -> <<"G","L","U","C","O","S","E"," ","9","2","\n">>)
      [] kind = "almost" ->
           (CASE reader = "pdfplumber" -> <<"G","l","u","c","o","s","e"," ","9","0"," ","m","g","/","d","l"," ","(","7","0","-","1","0","0",")"," ","H","e","m","o","g","l","o","b","i","n"," ","1","3",".","5"," ","g","/","d","l"," ","o","k">>
              [] reader = "PyPDF2" -> <<"g","l","u","c","o","s","e"," ","9","1"," ","m","g","/","d","l"," ","(","7","0","-","1","0","0",")"," ","h","e","m","o","g","l","o","b","i","n"," ","1","3",".","6"," ","g","/","d","l"," ","o","k">>
              [] reader = "ocr" -> <<"G","L","U","C","O","S","E"," ","9","2"," ","M","G","/","D","L"," ","(","7","0","-","1","0","0",")"," ","H","E","M","O","G","L","O","B","I","N"," ","1","3",".","7"," ","G","/","D","L"," ","O","K","\n">>)
      [] kind = "long" ->
           (CASE reader = "pdfplumber" -> <<"G","l","u","c","o","s","e"," ","9","0"," ","m","g","/","d","l"," ","(","7","0","-","1","0","0",")"," ","H","e","m","o","g","l","o","b","i","n"," ","1","3",".","5"," ","g","/","d","l"," ","o","k",".">>
              [] reader = "PyPDF2" -> <<"g","l","u","c","o","s","e"," ","9","1"," ","m","g","/","d","l"," ","(","7","0","-","1","0","0",")"," ","h","e","m","o","g","l","o","b","i","n"," ","1","3",".","6"," ","g","/","d","l"," ","o","k",".">>
              [] reader = "ocr" -> <<"G","L","U","C","O","S","E"," ","9","2"," ","M","G","/","D","L"," ","(","7","0","-","1","0","0",")"," ","H","E","M","O","G","L","O","B","I","N"," ","1","3",".","7"," ","G","/","D","L"," ","O","K",".","\n">>)]]

\* An exception: its class, str() of its argument, and the exception it wraps.
Error(type, detail, cause) == [type |-> type, detail |-> detail, cause |-> cause]

\* The exceptions the libraries raise.
LibraryError == [lib \in {"pdfplumber", "PyPDF2", "pdf2image", "pytesseract", "PIL"} |->
    CASE lib = "pdfplumber" -> Error("PDFSyntaxError", <<"N","o"," ","/","R","o","o","t"," ","o","b","j","e","c","t">>, <<>>)
      [] lib = "PyPDF2" -> Error("PdfReadError", <<"E","O","F"," ","m","a","r","k","e","r"," ","n","o","t"," ","f","o","u","n","d">>, <<>>)
      [] lib = "pdf2image" -> Error("PDFPageCountError", <<"U","n","a","b","l","e"," ","t","o"," ","g","e","t"," ","p","a","g","e"," ","c","o","u","n","t">>, <<>>)
      [] lib = "pytesseract" -> Error("TesseractError", <<"t","e","s","s","e","r","a","c","t"," ","f","a","i","l","e","d">>, <<>>)
      [] lib = "PIL" -> Error("UnidentifiedImageError", <<"c","a","n","n","o","t"," ","i","d","e","n","t","i","f","y"," ","i","m","a","g","e"," ","f","i","l","e">>, <<>>)]

\* What str() puts before the detail of an HTTPException: nothing, or the
\* status code, depending on the installed starlette.
StatusPrefixes == {<<>>, <<"4","0","0",":"," ">>}

\* str(e)
Str(e, status) == IF e.type = "FileUploadError" THEN status \o e.detail ELSE e.detail

\* FileUploadError(f"<prefix>{str(e)}") raised while handling e.
FileUploadError(prefix, e, status) == Error("FileUploadError", prefix \o Str(e, status), <<e>>)

UnsupportedFileType(ext) == Error("FileUploadError", <<"U","n","s","u","p","p","o","r","t","e","d"," ","f","i","l","e"," ","t","y","p","e",":"," ">> \o ext, <<>>)

TextExtractionFailed(e, status) == FileUploadError(<<"T","e","x","t"," ","e","x","t","r","a","c","t","i","o","n"," ","f","a","i","l","e","d",":"," ">>, e, status)   \* line 33
OcrFailed(e, status) == FileUploadError(<<"O","C","R"," ","f","a","i","l","e","d",":"," ">>, e, status)                          \* line 77
OcrProcessingFailed(e) == <<"O","C","R"," ","p","r","o","c","e","s","s","i","n","g"," ","f","a","i","l","e","d",":"," ">> \o Str(e, <<>>)              \* line 162

\* Mutant of PageMarker: the marker carries the 0-based index i of enumerate.
PageMarkerZeroBased(n) == <<"\n","-","-","-"," ","P","a","g","e"," ">> \o NatToStr(n - 1) \o <<" ","-","-","-","\n">>

\* f"\n--- Page {i + 1} ---\n" for the 1-based page number n
PageMarker(n) == <<"\n","-","-","-"," ","P","a","g","e"," ">> \o NatToStr(n) \o <<" ","-","-","-","\n">>

NoOutcome == [kind |-> "none", text |-> <<>>, error |-> <<>>]
ReturnedText(t) == [kind |-> "returned", text |-> t, error |-> <<>>]
Raised(e) == [kind |-> "raised", text |-> <<>>, error |-> <<e>>]

Tiers == {"pdfplumber", "PyPDF2", "ocr", "image"}
NotRun == [t \in Tiers |-> "not_run"]

\* Mutant of AfterPdfplumber: the test is `<= 50`.
AfterPdfplumberInclusive(t) ==
    IF Len(strip(t)) <= MinTextLength THEN "pypdf_open" ELSE "pdf_return"

\* Where _extract_text_from_pdf goes on after the first and the second tier.
AfterPdfplumber(t) == IF Len(strip(t)) < MinTextLength THEN "pypdf_open" ELSE "pdf_return"
AfterPyPDF2(t) == IF Len(strip(t)) < MinTextLength THEN "convert" ELSE "pdf_return"

\* No call of extract_text_from_file is made.
OcrOff ==
    /\ file_path = <<>> /\ file_ext = <<>> /\ pages = 0 /\ ocr_pc = "off" /\ pdf_text = <<>>
    /\ extracted_text = <<>> /\ page = 0 /\ tier = NotRun /\ outcome = NoOutcome
    /\ tier_text = [t \in Tiers |-> <<>>]
    /\ held = {}
    /\ ocr_page_text = <<>>

OcrInit ==
    /\ file_path \in Extensions
    /\ file_ext = <<>>
    /\ pages \in 0..MaxPdfPages
    /\ ocr_pc = "called" /\ pdf_text = <<>> /\ extracted_text = <<>> /\ page = 0
    /\ tier = NotRun /\ outcome = NoOutcome
    /\ tier_text = [t \in Tiers |-> <<>>]
    /\ held = {}
    /\ ocr_page_text = <<>>

\* Mutant of Dispatch: every extension other than .pdf is handled as an image.
DispatchImageByDefault ==
    /\ ocr_pc = "called"
    /\ file_ext' = lower(file_path)
    /\ IF file_ext' = PdfExtension
       THEN ocr_pc' = "plumber_open" /\ UNCHANGED outcome
       ELSE IF file_ext' # PdfExtension
       THEN ocr_pc' = "image_open" /\ UNCHANGED outcome
       ELSE /\ ocr_pc' = "done"
            /\ \E status \in StatusPrefixes :
                 outcome' = Raised(TextExtractionFailed(UnsupportedFileType(file_ext'), status))
    /\ UNCHANGED <<file_path, ocr_page_text, pages, pdf_text, extracted_text, page, tier, tier_text, held,
                   extractVars, createVars, uploadVars>>

\* extract_text_from_file, lines 23-33: the extension is lower-cased and the
\* call is dispatched on it; an unsupported extension raises inside the try and
\* is raised again by the handler of line 32.
Dispatch ==
    /\ ocr_pc = "called"
    /\ file_ext' = lower(file_path)
    /\ IF file_ext' = PdfExtension
       THEN ocr_pc' = "plumber_open" /\ UNCHANGED outcome
       ELSE IF file_ext' \in ImageExtensions
       THEN ocr_pc' = "image_open" /\ UNCHANGED outcome
       ELSE /\ ocr_pc' = "done"
            /\ \E status \in StatusPrefixes :
                 outcome' = Raised(TextExtractionFailed(UnsupportedFileType(file_ext'), status))
    /\ UNCHANGED <<file_path, ocr_page_text, pages, pdf_text, extracted_text, page, tier, tier_text, held,
                   extractVars, createVars, uploadVars>>

\* _extract_text_from_pdf, line 41: pdfplumber.open(file_path) opens the PDF or
\* raises; the handler of line 46 swallows the exception.
PlumberOpen ==
    /\ ocr_pc = "plumber_open"
    /\ \/ /\ ocr_pc' = "plumber_pages"
          /\ page' = 1
          /\ tier' = [tier EXCEPT !["pdfplumber"] = "running"]
          /\ UNCHANGED tier_text
          /\ held' = held \cup {"pdfplumber.open"}
       \/ /\ ocr_pc' = AfterPdfplumber(pdf_text)
          /\ tier' = [tier EXCEPT !["pdfplumber"] = "raised"]
          /\ tier_text' = [tier_text EXCEPT !["pdfplumber"] = pdf_text]
          /\ UNCHANGED <<page, held>>
    /\ UNCHANGED <<file_path, ocr_page_text, file_ext, pages, pdf_text, extracted_text, outcome,
                   extractVars, createVars, uploadVars>>

\* Mutant of PlumberPage: no handler around the pdfplumber tier, so an exception
\* of page.extract_text() leaves _extract_text_from_pdf and is raised by line 33.
PlumberPageUnhandled ==
    /\ ocr_pc = "plumber_pages"
    /\ page <= pages
    /\ \/ \E kind \in PageKinds :
            LET page_text == PageText["pdfplumber"][kind]
            IN  /\ pdf_text' = IF page_text # <<>> THEN pdf_text \o page_text \o <<"\n">>
                               ELSE pdf_text
                /\ page' = page + 1
                /\ UNCHANGED <<ocr_pc, tier, tier_text, outcome, held>>
       \/ /\ ocr_pc' = "done"
          /\ \E status \in StatusPrefixes :
               outcome' = Raised(TextExtractionFailed(LibraryError["pdfplumber"], status))
          /\ tier' = [tier EXCEPT !["pdfplumber"] = "raised"]
          /\ tier_text' = [tier_text EXCEPT !["pdfplumber"] = pdf_text]
          /\ held' = held \ {"pdfplumber.open"}
          /\ UNCHANGED <<pdf_text, page>>
    /\ UNCHANGED <<file_path, ocr_page_text, file_ext, pages, extracted_text, extractVars, createVars, uploadVars>>

\* lines 42-45: one page of the pdfplumber loop; page.extract_text() yields a
\* text, which is appended when it is not empty, or raises (line 46).
PlumberPage ==
    /\ ocr_pc = "plumber_pages"
    /\ page <= pages
    /\ \/ \E kind \in PageKinds :
            LET page_text == PageText["pdfplumber"][kind]
            IN  /\ pdf_text' = IF page_text # <<>> THEN pdf_text \o page_text \o <<"\n">>
                               ELSE pdf_text
                /\ page' = page + 1
                /\ UNCHANGED <<ocr_pc, tier, tier_text, held>>
       \/ /\ ocr_pc' = AfterPdfplumber(pdf_text)
          /\ tier' = [tier EXCEPT !["pdfplumber"] = "raised"]
          /\ tier_text' = [tier_text EXCEPT !["pdfplumber"] = pdf_text]
          /\ held' = held \ {"pdfplumber.open"}
          /\ UNCHANGED <<pdf_text, page>>
    /\ UNCHANGED <<file_path, ocr_page_text, file_ext, pages, extracted_text, outcome,
                   extractVars, createVars, uploadVars>>

\* The pdfplumber loop ends; lines 50 and 63 decide what runs next.
PlumberDone ==
    /\ ocr_pc = "plumber_pages"
    /\ page > pages
    /\ ocr_pc' = AfterPdfplumber(pdf_text)
    /\ tier' = [tier EXCEPT !["pdfplumber"] = "returned"]
    /\ tier_text' = [tier_text EXCEPT !["pdfplumber"] = pdf_text]
    /\ held' = held \ {"pdfplumber.open"}
    /\ UNCHANGED <<file_path, ocr_page_text, file_ext, pages, pdf_text, extracted_text, page, outcome,
                   extractVars, createVars, uploadVars>>

\* lines 52-54: open(file_path, 'rb') and PyPDF2.PdfReader(file); when both
\* succeed `text` is reset, when one raises `text` is kept (line 59).
PyPdfOpen ==
    /\ ocr_pc = "pypdf_open"
    /\ \/ /\ ocr_pc' = "pypdf_pages"
          /\ pdf_text' = <<>>
          /\ page' = 1
          /\ tier' = [tier EXCEPT !["PyPDF2"] = "running"]
          /\ UNCHANGED tier_text
          /\ held' = held \cup {"open"}
       \/ /\ ocr_pc' = AfterPyPDF2(pdf_text)
          /\ tier' = [tier EXCEPT !["PyPDF2"] = "raised"]
          /\ tier_text' = [tier_text EXCEPT !["PyPDF2"] = pdf_text]
          /\ UNCHANGED <<pdf_text, page, held>>
    /\ UNCHANGED <<file_path, ocr_page_text, file_ext, pages, extracted_text, outcome,
                   extractVars, createVars, uploadVars>>

\* lines 55-58: one page of the PyPDF2 loop.
PyPdfPage ==
    /\ ocr_pc = "pypdf_pages"
    /\ page <= pages
    /\ \/ \E kind \in PageKinds :
            LET page_text == PageText["PyPDF2"][kind]
            IN  /\ pdf_text' = IF page_text # <<>> THEN pdf_text \o page_text \o <<"\n">>
                               ELSE pdf_text
                /\ page' = page + 1
                /\ UNCHANGED <<ocr_pc, tier, tier_text, held>>
       \/ /\ ocr_pc' = AfterPyPDF2(pdf_text)
          /\ tier' = [tier EXCEPT !["PyPDF2"] = "raised"]
          /\ tier_text' = [tier_text EXCEPT !["PyPDF2"] = pdf_text]
          /\ held' = held \ {"open"}
          /\ UNCHANGED <<pdf_text, page>>
    /\ UNCHANGED <<file_path, ocr_page_text, file_ext, pages, extracted_text, outcome,
                   extractVars, createVars, uploadVars>>

PyPdfDone ==
    /\ ocr_pc = "pypdf_pages"
    /\ page > pages
    /\ ocr_pc' = AfterPyPDF2(pdf_text)
    /\ tier' = [tier EXCEPT !["PyPDF2"] = "returned"]
    /\ tier_text' = [tier_text EXCEPT !["PyPDF2"] = pdf_text]
    /\ held' = held \ {"open"}
    /\ UNCHANGED <<file_path, ocr_page_text, file_ext, pages, pdf_text, extracted_text, page, outcome,
                   extractVars, createVars, uploadVars>>

\* The smaller of two numbers.
Min(a, b) == IF a <= b THEN a ELSE b

\* _ocr_pdf_pages, lines 130-139: convert_from_path rasterizes the first
\* LastPage pages, or raises; the handler of line 160 turns the exception into
\* the string that _ocr_pdf_pages returns and line 64 assigns to `text`.
Convert ==
    /\ ocr_pc = "convert"
    /\ \/ /\ ocr_pc' = "ocr_pages"
          /\ extracted_text' = <<>>
          /\ page' = 1
          /\ tier' = [tier EXCEPT !["ocr"] = "running"]
          /\ UNCHANGED tier_text
          /\ UNCHANGED pdf_text
          /\ held' = held \cup {"convert_from_path"}
       \/ /\ ocr_pc' = "pdf_return"
          /\ pdf_text' = OcrProcessingFailed(LibraryError["pdf2image"])
          /\ tier' = [tier EXCEPT !["ocr"] = "raised"]
          /\ tier_text' = [tier_text EXCEPT !["ocr"] = pdf_text']
          /\ UNCHANGED <<extracted_text, page, held>>
    /\ UNCHANGED <<file_path, ocr_page_text, file_ext, pages, outcome,
                   extractVars, createVars, uploadVars>>

\* The texts tried for the rasterized page p: every kind for the first
\* MaxPdfPages pages, and an empty or a short text for the pages after them.
OcrKindsAt(p) == IF p <= MaxPdfPages THEN OcrPageKinds ELSE {"empty", "short"}

\* lines 141-155: one rasterized page; image_to_string yields the page's text,
\* which gets a page marker when it is not blank, or raises (line 160).
OcrPage ==
    /\ ocr_pc = "ocr_pages"
    /\ page <= Min(pages, LastPage)
    /\ \/ \E kind \in OcrKindsAt(page) :
            LET page_text == PageText["ocr"][kind]
            IN  /\ ocr_page_text' = page_text
                /\ extracted_text' =
                      IF strip(page_text) # <<>>
                      THEN extracted_text \o PageMarker(page) \o strip(page_text) \o <<"\n">>
                      ELSE extracted_text
                /\ page' = page + 1
                /\ UNCHANGED <<ocr_pc, tier, tier_text, pdf_text, held>>
       \/ /\ ocr_pc' = "pdf_return"
          /\ pdf_text' = OcrProcessingFailed(LibraryError["pytesseract"])
          /\ tier' = [tier EXCEPT !["ocr"] = "raised"]
          /\ tier_text' = [tier_text EXCEPT !["ocr"] = pdf_text']
          /\ held' \in {held, held \ {"convert_from_path"}}
          /\ UNCHANGED <<extracted_text, page, ocr_page_text>>
    /\ UNCHANGED <<file_path, file_ext, pages, outcome,
                   extractVars, createVars, uploadVars>>

\* Mutant of OcrDone: the OCR text is appended to `text` (text += ...) instead of
\* replacing it.
OcrDoneAppends ==
    /\ ocr_pc = "ocr_pages"
    /\ page > Min(pages, LastPage)
    /\ pdf_text' = pdf_text \o strip(extracted_text)
    /\ ocr_pc' = "pdf_return"
    /\ tier' = [tier EXCEPT !["ocr"] = "returned"]
    /\ tier_text' = [tier_text EXCEPT !["ocr"] = pdf_text']
    /\ held' \in {held, held \ {"convert_from_path"}}
    /\ UNCHANGED <<file_path, ocr_page_text, file_ext, pages, extracted_text, page, outcome,
                   extractVars, createVars, uploadVars>>

\* line 158 and line 64: _ocr_pdf_pages returns extracted_text.strip(). The
\* page images are never closed by the code: when _ocr_pdf_pages is left they
\* are released only if the garbage collector has already done so.
OcrDone ==
    /\ ocr_pc = "ocr_pages"
    /\ page > Min(pages, LastPage)
    /\ pdf_text' = strip(extracted_text)
    /\ ocr_pc' = "pdf_return"
    /\ tier' = [tier EXCEPT !["ocr"] = "returned"]
    /\ tier_text' = [tier_text EXCEPT !["ocr"] = pdf_text']
    /\ held' \in {held, held \ {"convert_from_path"}}
    /\ UNCHANGED <<file_path, ocr_page_text, file_ext, pages, extracted_text, page, outcome,
                   extractVars, createVars, uploadVars>>

\* line 66 and line 27: `return text.strip()`.
PdfReturn ==
    /\ ocr_pc = "pdf_return"
    /\ outcome' = ReturnedText(strip(pdf_text))
    /\ ocr_pc' = "done"
    /\ UNCHANGED <<file_path, ocr_page_text, file_ext, pages, pdf_text, extracted_text, page, tier, tier_text, held,
                   extractVars, createVars, uploadVars>>

\* _extract_text_from_image, lines 70-77: Image.open raises, or the image is
\* opened and preprocessed and image_to_string yields its text or raises. An
\* exception becomes FileUploadError("OCR failed: ..."), which the handler of
\* line 32 raises again as FileUploadError("Text extraction failed: ...").
\* The opened image is never closed by the code: at the exit it is released
\* only if the library or the garbage collector has already done so.
ExtractImage ==
    /\ ocr_pc = "image_open"
    /\ \/ \E lib \in {"PIL", "pytesseract"}, status \in StatusPrefixes :
            /\ outcome' = Raised(TextExtractionFailed(OcrFailed(LibraryError[lib], status), status))
            /\ tier' = [tier EXCEPT !["image"] = "raised"]
            /\ held' \in IF lib = "PIL" THEN {held} ELSE {held, held \cup {"Image.open"}}
            /\ UNCHANGED tier_text
       \/ \E kind \in ImageKinds :
            /\ outcome' = ReturnedText(strip(PageText["ocr"][kind]))
            /\ tier' = [tier EXCEPT !["image"] = "returned"]
            /\ tier_text' = [tier_text EXCEPT !["image"] = strip(PageText["ocr"][kind])]
            /\ held' \in {held, held \cup {"Image.open"}}
    /\ ocr_pc' = "done"
    /\ UNCHANGED <<file_path, ocr_page_text, file_ext, pages, pdf_text, extracted_text, page,
                   extractVars, createVars, uploadVars>>

(***************************************************************************)
(* The upload endpoint and its background task (upload.py), with           *)
(* FileService (file_service.py) and DataService (data_service.py).        *)
(***************************************************************************)
\* settings.allowed_extensions
allowed_extensions == {<<".","p","d","f">>, <<".","j","p","g">>, <<".","j","p","e","g">>, <<".","p","n","g">>}

\* The uploaded files: a file without a name, and files whose name has each of
\* the extensions, of a size within settings.max_file_size or above it.
Uploads ==
    {[named |-> TRUE, ext |-> x, oversize |-> o] : x \in Extensions, o \in BOOLEAN}
    \cup {[named |-> FALSE, ext |-> <<>>, oversize |-> FALSE]}

\* The ids of family profiles and the ObjectIds the reports collection gives.
Profiles == {<<"p","r","o","f","i","l","e","-","1">>}
ObjectIds == {"oid-1"}

\* ValidationError(detail) of app/core/exceptions.py
ValidationError(detail) == Error("ValidationError", detail, <<>>)

\* The NameError of reading the global `logger`, which upload.py never defines.
NameError == Error("NameError", <<"n","a","m","e"," ","'","l","o","g","g","e","r","'"," ","i","s"," ","n","o","t"," ","d","e","f","i","n","e","d">>, <<>>)

\* An exception of the MongoDB driver.
PyMongoError == Error("PyMongoError", <<"c","o","n","n","e","c","t","i","o","n"," ","r","e","f","u","s","e","d">>, <<>>)

\* An exception that escapes extract_parameters.
MemoryError == Error("MemoryError", <<>>, <<>>)

\* FileService._validate_file: <<>> when the file is accepted, else the
\* ValidationError it raises.
_validate_file(f) ==
    IF ~f.named THEN <<ValidationError(<<"N","o"," ","f","i","l","e","n","a","m","e"," ","p","r","o","v","i","d","e","d">>)>>
    ELSE LET ext == lower(f.ext)
         IN  IF ext \notin allowed_extensions
             THEN <<ValidationError(<<"F","i","l","e"," ","t","y","p","e"," ">> \o ext \o <<" ","n","o","t"," ","a","l","l","o","w","e","d","."," ","A","l","l","o","w","e","d"," ","t","y","p","e","s",":"," ","[","'",".","p","d","f","'",","," ","'",".","j","p","g","'",","," ","'",".","j","p","e","g","'",","," ","'",".","p","n","g","'","]">>)>>
             ELSE IF f.oversize
             THEN <<ValidationError(<<"F","i","l","e"," ","t","o","o"," ","l","a","r","g","e","."," ","M","a","x"," ","s","i","z","e",":"," ","1","0","4","8","5","7","6","0"," ","b","y","t","e","s">>)>>
             ELSE <<>>

\* The LabReport that save_file builds for the file it wrote.
LabReport(file_id, ext) ==
    [id |-> file_id, profile_id |-> None, file_path |-> ext,
     processing_status |-> "uploading", raw_text |-> None, error_message |-> None,
     parameters |-> <<>>, is_starred |-> FALSE]

\* DataService.save_report: the document inserted for `r` under the ObjectId oid.
save_report(r, oid) == [r EXCEPT !.id = oid]

\* DataService.get_report on the collection d: the LabReport of the document
\* with that id, or <<>> for None.
get_report(d, report_id) ==
    IF d # <<>> /\ d[1].id = report_id THEN d ELSE <<>>

\* Mutant of update_report: raw_text is left out of the fields that are set.
update_report_without_text(d, r) ==
    IF d # <<>> /\ d[1].id = r.id
    THEN <<[d[1] EXCEPT !.file_path = r.file_path,
                        !.parameters = r.parameters,
                        !.processing_status = r.processing_status,
                        !.error_message = r.error_message,
                        !.is_starred = r.is_starred]>>
    ELSE d

\* DataService.update_report: the collection after update_one sets the fields
\* of `r` on the document with r's id; a collection without it is left alone.
update_report(d, r) ==
    IF d # <<>> /\ d[1].id = r.id
    THEN <<[d[1] EXCEPT !.file_path = r.file_path,
                        !.parameters = r.parameters,
                        !.processing_status = r.processing_status,
                        !.raw_text = r.raw_text,
                        !.error_message = r.error_message,
                        !.is_starred = r.is_starred]>>
    ELSE d

\* What extract_text_from_file does for a file with the extension ext: the PDF
\* outcomes are a text layer, the OCR of one page, the message of a failed
\* rasterization, and no text at all.
OutcomesOf(ext, status) ==
    IF lower(ext) = PdfExtension
    THEN {ReturnedText(strip(PageText["pdfplumber"]["long"])),
          ReturnedText(strip(PageMarker(1) \o strip(PageText["ocr"]["short"]))),
          ReturnedText(OcrProcessingFailed(LibraryError["pdf2image"])),
          ReturnedText(<<>>)}
    ELSE IF lower(ext) \in ImageExtensions
    THEN {Raised(TextExtractionFailed(OcrFailed(LibraryError[lib], status), status)) :
              lib \in {"PIL", "pytesseract"}}
         \cup {ReturnedText(strip(PageText["ocr"][kind])) : kind \in ImageKinds}
    ELSE {Raised(TextExtractionFailed(UnsupportedFileType(lower(ext)), status))}

\* The outer for loop of extract_parameters from line i on, with ids[i] the
\* uuid of the parameter built from line i; Exception when a call in it raised.
RECURSIVE LineLoop(_, _, _, _)
LineLoop(ls, i, acc, ids) ==
    IF i > Len(ls) \/ acc = Exception THEN acc
    ELSE LineLoop(ls, i + 1,
                  IF SkipLine(strip(ls[i])) THEN acc
                  ELSE PatternLoop(strip(ls[i]), 1, acc, ids[i]),
                  ids)

\* The return of extract_parameters for the list the loop built.
ReturnOf(ps) == IF ps = Exception THEN Exception ELSE _deduplicate_parameters(ps)

\* ExtractionService.extract_parameters as a function of its argument.
extract_parameters(t, ids) == ReturnOf(LineLoop(split(t), 1, <<>>, ids))

\* Mutant of AlertStatuses: a critical parameter raises no alert.
AlertStatusesWithoutCritical == {"high", "low"}

\* The statuses for which process_uploaded_file creates a health alert.
AlertStatuses == {"high", "low", "critical"}

\* The notifications process_uploaded_file asks for: report-ready, then one
\* health alert per parameter whose status is in AlertStatuses.
RECURSIVE HealthAlerts(_)
HealthAlerts(ps) ==
    IF ps = <<>> THEN <<>>
    ELSE (IF Head(ps).status \in AlertStatuses
          THEN <<[type |-> "health_alert", parameter |-> Head(ps).name]>>
          ELSE <<>>) \o HealthAlerts(Tail(ps))

ReportReady == [type |-> "report_ready", parameter |-> <<>>]

\* Mutant of MarkFailed: the cause is not recorded.
MarkFailedWithoutMessage(r, e, status) == [r EXCEPT !.processing_status = "failed"]

\* Lines 110-111: the report re-read by the handler is marked failed with the
\* text of the exception.
MarkFailed(r, e, status) ==
    [r EXCEPT !.processing_status = "failed", !.error_message = Str(e, status)]

\* Neither upload_file nor process_uploaded_file is called.
UploadOff ==
    /\ file = <<>> /\ str_prefix = <<>> /\ profile_store = FALSE /\ upload_pc = "off"
    /\ profile_id = None /\ lab_report = <<>> /\ disk = {} /\ db = <<>> /\ tasks = <<>>
    /\ response = 0 /\ task_pc = "off" /\ report = <<>> /\ caught = <<>>
    /\ notifications = <<>> /\ db_log = <<>> /\ star_request = <<>>
    /\ notification_error = <<>>

\* An authenticated user, with or without an active profile, posts a file.
UploadInit ==
    /\ file \in Uploads
    /\ str_prefix \in StatusPrefixes
    /\ profile_store \in BOOLEAN
    /\ upload_pc = "request"
    /\ profile_id = None /\ lab_report = <<>> /\ disk = {} /\ db = <<>> /\ tasks = <<>>
    /\ response = 0 /\ task_pc = "idle" /\ report = <<>> /\ caught = <<>>
    /\ notifications = <<>> /\ db_log = <<>> /\ star_request = <<>>
    /\ notification_error = <<>>

\* upload_file, lines 145-156: the active profile is looked up (a failed lookup
\* gives None); without one, create_self_profile stores a profile or raises, and
\* either way the logger call that follows raises NameError, which the handler
\* of line 185 answers with status 500.
UploadGetProfile ==
    /\ upload_pc = "request"
    /\ \E found \in {profile_store, FALSE} :
         IF found
         THEN /\ \E p \in Profiles : profile_id' = p
              /\ upload_pc' = "save_file"
              /\ UNCHANGED <<profile_store, response>>
         ELSE /\ profile_store' \in {profile_store, TRUE}
              /\ response' = 500
              /\ upload_pc' = "responded"
              /\ UNCHANGED profile_id
    /\ UNCHANGED <<file, str_prefix, star_request, notification_error,
                   lab_report, disk, db, tasks, task_pc, report, caught,
                   notifications, db_log, extractVars, createVars, ocrVars>>

\* upload_file, line 159, and FileService.save_file: the file is validated and
\* written under a fresh name; ValidationError and the FileUploadError of a
\* failed write (which may leave the file behind) are answered with status 400.
UploadSaveFile ==
    /\ upload_pc = "save_file"
    /\ IF _validate_file(file) # <<>>
       THEN /\ response' = 400
            /\ upload_pc' = "responded"
            /\ UNCHANGED <<lab_report, disk>>
       ELSE \E file_id \in UUIDs :
              \/ /\ disk' = disk \cup {file_id}
                 /\ lab_report' = <<LabReport(file_id, file.ext)>>
                 /\ upload_pc' = "save_report"
                 /\ UNCHANGED response
              \/ /\ disk' \in {disk, disk \cup {file_id}}
                 /\ response' = 400
                 /\ upload_pc' = "responded"
                 /\ UNCHANGED lab_report
    /\ UNCHANGED <<file, str_prefix, star_request, notification_error,
                   profile_store, profile_id, db, tasks, task_pc, report,
                   caught, notifications, db_log, extractVars, createVars, ocrVars>>

\* upload_file, lines 161-181: the report gets the profile id and is inserted;
\* then the background task is added and the response is sent. An insert that
\* raises is answered with status 500.
UploadSaveReport ==
    /\ upload_pc = "save_report"
    /\ LET r == IF profile_id # None
                THEN [lab_report[1] EXCEPT !.profile_id = profile_id]
                ELSE lab_report[1]
       IN  \/ \E oid \in ObjectIds :
                /\ db' = <<save_report(r, oid)>>
                /\ lab_report' = db'
                /\ tasks' = Append(tasks, oid)
                /\ response' = 200
          \/ /\ lab_report' = <<r>>
             /\ response' = 500
             /\ UNCHANGED <<db, tasks>>
    /\ upload_pc' = "responded"
    /\ UNCHANGED <<file, str_prefix, star_request, notification_error,
                   profile_store, profile_id, disk, task_pc, report, caught,
                   notifications, db_log, extractVars, createVars, ocrVars>>

\* DataService.update_report_star: the collection after update_one sets
\* is_starred on the document with that id.
update_report_star(d, report_id, is_starred) ==
    IF d # <<>> /\ d[1].id = report_id
    THEN <<[d[1] EXCEPT !.is_starred = is_starred]>>
    ELSE d

\* toggle_report_star (reports.py, lines 174-193) for the report the upload
\* answered with: update_report_star stores the requested star status, or fails
\* and changes nothing (the request is then answered with 404).
ToggleStar ==
    /\ upload_pc = "responded"
    /\ response = 200
    /\ \E is_starred \in BOOLEAN, ok \in BOOLEAN :
         IF ok
         THEN /\ db' = update_report_star(db, lab_report[1].id, is_starred)
              /\ star_request' = <<is_starred>>
         ELSE UNCHANGED <<db, star_request>>
    /\ UNCHANGED <<file, str_prefix, profile_store, upload_pc, profile_id, lab_report, disk,
                   tasks, response, task_pc, report, caught, notifications, db_log,
                   notification_error,
                   extractVars, createVars, ocrVars>>

\* One call of DataService in the log of process_uploaded_file.
DbCall(call, ok) == [call |-> call, ok |-> ok]

\* process_uploaded_file, lines 34-39: the task starts and reads its report; a
\* report that is not found, or a read that fails, ends the task.
TaskGetReport ==
    /\ task_pc = "idle"
    /\ tasks # <<>>
    /\ tasks' = Tail(tasks)
    /\ \E ok \in BOOLEAN :
         /\ report' = IF ok THEN get_report(db, Head(tasks)) ELSE <<>>
         /\ db_log' = Append(db_log, DbCall("get_report", ok))
    /\ task_pc' = IF report' = <<>> THEN "done" ELSE "mark_processing"
    /\ UNCHANGED <<file, str_prefix, star_request, notification_error,
                   profile_store, upload_pc, profile_id, lab_report, disk,
                   db, response, caught, notifications, extractVars, createVars, ocrVars>>

\* lines 41-43: the status PROCESSING is stored, or update_report raises.
TaskMarkProcessing ==
    /\ task_pc = "mark_processing"
    /\ report' = <<[report[1] EXCEPT !.processing_status = "processing"]>>
    /\ \E ok \in BOOLEAN :
         /\ db_log' = Append(db_log, DbCall("update_report", ok))
         /\ IF ok
            THEN db' = update_report(db, report'[1]) /\ task_pc' = "extract_text"
                 /\ UNCHANGED caught
            ELSE caught' = <<PyMongoError>> /\ task_pc' = "handler" /\ UNCHANGED db
    /\ UNCHANGED <<file, str_prefix, star_request, notification_error,
                   profile_store, upload_pc, profile_id, lab_report, disk,
                   tasks, response, notifications, extractVars, createVars, ocrVars>>

\* lines 46-58: extract_text_from_file returns the text, which becomes
\* report.raw_text, or raises, and the exception is raised again.
TaskExtractText ==
    /\ task_pc = "extract_text"
    /\ \E o \in OutcomesOf(report[1].file_path, str_prefix) :
         IF o.kind = "returned"
         THEN /\ report' = <<[report[1] EXCEPT !.raw_text = o.text]>>
              /\ task_pc' = "extract_parameters"
              /\ UNCHANGED caught
         ELSE /\ caught' = o.error
              /\ task_pc' = "handler"
              /\ UNCHANGED report
    /\ UNCHANGED <<file, str_prefix, star_request, notification_error,
                   profile_store, upload_pc, profile_id, lab_report, disk,
                   db, tasks, response, notifications, db_log,
                   extractVars, createVars, ocrVars>>

\* lines 60-72: extract_parameters returns the parameters, which become
\* report.parameters, or an exception escapes it and is raised again.
TaskExtractParameters ==
    /\ task_pc = "extract_parameters"
    /\ \/ \E ids \in [1..Len(split(report[1].raw_text)) -> UUIDs] :
            /\ report' = <<[report[1] EXCEPT
                                !.parameters = extract_parameters(report[1].raw_text, ids)]>>
            /\ task_pc' = "mark_completed"
            /\ UNCHANGED caught
       \/ /\ caught' = <<MemoryError>>
          /\ task_pc' = "handler"
          /\ UNCHANGED report
    /\ UNCHANGED <<file, str_prefix, star_request, notification_error,
                   profile_store, upload_pc, profile_id, lab_report, disk,
                   db, tasks, response, notifications, db_log,
                   extractVars, createVars, ocrVars>>

\* lines 74-77: the status COMPLETED is stored with the text and the
\* parameters, or update_report raises.
TaskMarkCompleted ==
    /\ task_pc = "mark_completed"
    /\ report' = <<[report[1] EXCEPT !.processing_status = "completed"]>>
    /\ \E ok \in BOOLEAN :
         /\ db_log' = Append(db_log, DbCall("update_report", ok))
         /\ IF ok
            THEN db' = update_report(db, report'[1]) /\ task_pc' = "notify"
                 /\ UNCHANGED caught
            ELSE caught' = <<PyMongoError>> /\ task_pc' = "handler" /\ UNCHANGED db
    /\ UNCHANGED <<file, str_prefix, star_request, notification_error,
                   profile_store, upload_pc, profile_id, lab_report, disk,
                   tasks, response, notifications, extractVars, createVars, ocrVars>>

\* Mutant of TaskNotify: no handler around the notifications, so that a call
\* that raises reaches the handler of line 104.
TaskNotifyUnhandled ==
    /\ task_pc = "notify"
    /\ LET wanted == <<ReportReady>> \o HealthAlerts(report[1].parameters)
       IN  \E n \in 0..Len(wanted) :
             /\ notifications' = notifications \o SubSeq(wanted, 1, n)
             /\ IF n < Len(wanted)
                THEN /\ notification_error' = <<>>
                     /\ caught' = <<Error("Exception", <<"F","a","i","l","e","d"," ","t","o"," ","c","r","e","a","t","e"," ","n","o","t","i","f","i","c","a","t","i","o","n">>, <<>>)>>
                     /\ task_pc' = "handler"
                ELSE /\ task_pc' = "done"
                     /\ UNCHANGED <<caught, notification_error>>
    /\ UNCHANGED <<file, str_prefix, star_request, profile_store, upload_pc, profile_id, lab_report, disk,
                   db, tasks, response, report, db_log,
                   extractVars, createVars, ocrVars>>

\* lines 79-102: the report-ready notification and the health alerts are
\* created in order; the first call that raises ends the block, and the
\* handler of line 100 swallows the exception.
TaskNotify ==
    /\ task_pc = "notify"
    /\ LET wanted == <<ReportReady>> \o HealthAlerts(report[1].parameters)
       IN  \E n \in 0..Len(wanted) :
             /\ notifications' = notifications \o SubSeq(wanted, 1, n)
             /\ notification_error' = IF n < Len(wanted) THEN Exception ELSE <<>>
    /\ task_pc' = "done"
    /\ UNCHANGED <<file, str_prefix, star_request, profile_store, upload_pc, profile_id, lab_report, disk,
                   db, tasks, response, report, caught, db_log,
                   extractVars, createVars, ocrVars>>

\* Mutant of TaskHandleFailure: the handler only logs the exception.
TaskHandleFailureLogOnly ==
    /\ task_pc = "handler"
    /\ task_pc' = "done"
    /\ UNCHANGED <<file, str_prefix, star_request, notification_error,
                   profile_store, upload_pc, profile_id,
                   lab_report, disk, db, tasks, response, report, caught, notifications,
                   db_log, extractVars, createVars, ocrVars>>

\* lines 104-114: the handler reads the report again and, when it gets one,
\* stores it as failed with the text of the exception; a None from get_report
\* skips the update and an exception of update_report is swallowed.
TaskHandleFailure ==
    /\ task_pc = "handler"
    /\ \E read \in BOOLEAN :
         LET again == IF read THEN get_report(db, report[1].id) ELSE <<>>
         IN  IF again = <<>>
             THEN /\ report' = <<>>
                  /\ db_log' = Append(db_log, DbCall("get_report", read))
                  /\ UNCHANGED db
             ELSE /\ report' = <<MarkFailed(again[1], caught[1], str_prefix)>>
                  /\ \E ok \in BOOLEAN :
                       /\ db_log' = db_log \o <<DbCall("get_report", read),
                                                DbCall("update_report", ok)>>
                       /\ db' = IF ok THEN update_report(db, report'[1]) ELSE db
    /\ task_pc' = "done"
    /\ UNCHANGED <<file, str_prefix, star_request, notification_error,
                   profile_store, upload_pc, profile_id, lab_report, disk,
                   tasks, response, caught, notifications, extractVars, createVars, ocrVars>>

(***************************************************************************)
(* The specifications.                                                     *)
(***************************************************************************)
InitCreate == ExtractOff /\ CreateInit /\ OcrOff /\ UploadOff

NextCreate == CreateParameter

SpecCreate == InitCreate /\ [][NextCreate]_vars

InitOcr == ExtractOff /\ CreateOff /\ OcrInit /\ UploadOff

NextOcr ==
    \/ Dispatch
    \/ PlumberOpen \/ PlumberPage \/ PlumberDone
    \/ PyPdfOpen \/ PyPdfPage \/ PyPdfDone
    \/ Convert \/ OcrPage \/ OcrDone
    \/ PdfReturn
    \/ ExtractImage

SpecOcr == InitOcr /\ [][NextOcr]_vars

\* _ocr_pdf_pages on its own, for PDFs of up to one page more than the cap of
\* convert_from_path: the call of line 64 after pdfplumber.open and
\* open(file_path, 'rb') both raised, so that `text` is still "".
RasterPageCounts == {1, LastPage + 1}

RasterInit ==
    /\ file_path = PdfExtension
    /\ file_ext = PdfExtension
    /\ pages \in RasterPageCounts
    /\ ocr_pc = "convert" /\ pdf_text = <<>> /\ extracted_text = <<>> /\ page = 0
    /\ tier = [NotRun EXCEPT !["pdfplumber"] = "raised", !["PyPDF2"] = "raised"]
    /\ outcome = NoOutcome
    /\ tier_text = [t \in Tiers |-> <<>>]
    /\ held = {}
    /\ ocr_page_text = <<>>

InitRaster == ExtractOff /\ CreateOff /\ RasterInit /\ UploadOff

NextRaster == Convert \/ OcrPage \/ OcrDone \/ PdfReturn

SpecRaster == InitRaster /\ [][NextRaster]_vars

Init == ExtractInit(Texts) /\ CreateOff /\ OcrOff /\ UploadOff

\* extract_parameters when building a HealthParameter can raise: the lines tried
\* and the registry entries whose construction may raise.
FaultLines == {
    <<"H","e","m","o","g","l","o","b","i","n",","," ","g","l","u","c","o","s","e"," ","1","3",".","5"," ","g","m","%">>,
    <<"G","l","u","c","o","s","e"," ","9","5"," ","m","g","/","d","l">>,
    <<"t","s","h","1">>,
    <<" ","\t"," ">>,
    <<>> }

FaultTexts == {Join(ls) : ls \in UNION {[1..n -> FaultLines] : n \in 1..MaxLines}}

FaultyEntries == {"glucose", "hemoglobin"}

InitFault ==
    /\ text \in FaultTexts
    /\ pc = "idle"
    /\ lines = <<>>
    /\ idx = 0
    /\ parameters = <<>>
    /\ result = NoResult
    /\ calls = 0
    /\ failing \in SUBSET FaultyEntries
    /\ CreateOff /\ OcrOff /\ UploadOff

Next == Call \/ ProcessLine \/ Return

Spec == Init /\ [][Next]_vars

SpecFault == InitFault /\ [][Next]_vars

InitUpload == ExtractOff /\ CreateOff /\ OcrOff /\ UploadInit

NextUpload ==
    \/ UploadGetProfile \/ UploadSaveFile \/ UploadSaveReport
    \/ TaskGetReport \/ TaskMarkProcessing \/ TaskExtractText \/ TaskExtractParameters
    \/ TaskMarkCompleted \/ TaskNotify \/ TaskHandleFailure \/ ToggleStar

SpecUpload == InitUpload /\ [][NextUpload]_vars

(***************************************************************************)
(* Properties of extract_parameters.                                       *)
(***************************************************************************)
\* The registry entries whose pattern matches a (stripped) line, and the
\* table of them for the lines of the sample texts.
MatchingPatternsOf(line) ==
    {k \in 1..Len(parameter_patterns) : re_search(parameter_patterns[k].pattern, line).ok}

MatchTable == [l \in {strip(x) : x \in SampleLines} |-> MatchingPatternsOf(l)]

MatchingPatterns(line) ==
    IF line \in DOMAIN MatchTable THEN MatchTable[line] ELSE MatchingPatternsOf(line)

Least(S) == CHOOSE i \in S : \A j \in S : i <= j

\* The k-th smallest element of a finite set of numbers.
Nth(S, k) == CHOOSE i \in S : Cardinality({j \in S : j <= i}) = k

DisplayName(k) == name_mappings[parameter_patterns[k].name]

\* The lines of the text, by index, that pass the length filter and match.
Hits(upto) ==
    {i \in 1..upto : Len(strip(lines[i])) >= 5 /\ MatchingPatterns(strip(lines[i])) # {}}

\* The display name a line gives rise to: that of its first matching entry.
LineName(i) == DisplayName(Least(MatchingPatterns(strip(lines[i]))))

\* The value a stripped line gives rise to: group 1 of its first matching entry.
ValueOf(l) ==
    LET pat == parameter_patterns[Least(MatchingPatterns(l))].pattern
    IN  FloatValue(float(group(re_search(pat, l), l, 1)))

ValueTable ==
    [l \in {x \in DOMAIN MatchTable : MatchTable[x] # {}} |-> ValueOf(l)]

LineValue(i) ==
    LET l == strip(lines[i])
    IN  IF l \in DOMAIN ValueTable THEN ValueTable[l] ELSE ValueOf(l)

Names(ps) == {ps[i].name : i \in 1..Len(ps)}

\* C1: no two records of the output of extract_parameters have the same display
\* name.
C1_NoDuplicateNames ==
    result.returned =>
        \A i, j \in 1..Len(result.value) :
            i # j => result.value[i].name # result.value[j].name

\* C1 witness: a call has returned after two lines gave the same display name.
C1_DuplicateRemoved ==
    /\ pc = "returned"
    /\ \E i, j \in 1..Len(parameters) : i < j /\ parameters[i].name = parameters[j].name
    /\ Len(result.value) < Len(parameters)

\* C3: the output is the list of per-line matches with every record whose name
\* occurred on an earlier line removed: the kept records are the first
\* occurrences, in the order of their lines, and each kept record carries the
\* text and the value of the earliest line that gives its display name.
C3_FirstOccurrenceInLineOrder ==
    pc = "returned" =>
        LET firsts == {i \in 1..Len(parameters) :
                          \A j \in 1..(i - 1) : parameters[j].name # parameters[i].name}
            out == result.value
        IN  /\ Len(out) = Cardinality(firsts)
            /\ \A k \in 1..Len(out) : out[k] = parameters[Nth(firsts, k)]
            /\ \A k \in 1..Len(out) :
                 LET from == {i \in Hits(Len(lines)) : LineName(i) = out[k].name}
                 IN  /\ from # {}
                     /\ out[k].extracted_text = strip(lines[Least(from)])
                     /\ out[k].value = LineValue(Least(from))
                     /\ \A m \in 1..(k - 1) :
                          Least({i \in Hits(Len(lines)) : LineName(i) = out[m].name})
                              < Least(from)

\* C3 witness: two lines gave the same name with different values and the call
\* returned the first of them.
C3_LaterValueDropped ==
    /\ pc = "returned"
    /\ \E i, j \in 1..Len(parameters) :
         /\ i < j
         /\ parameters[i].name = parameters[j].name
         /\ parameters[i].value # parameters[j].value
         /\ \E k \in 1..Len(result.value) : result.value[k] = parameters[i]

\* C4: each line that passes the length filter contributes at most one parameter
\* to the list before deduplication, built from the first registry entry, in
\* insertion order, whose pattern matches the line; lines that match nothing
\* contribute nothing.
C4_FirstPatternOnePerLine ==
    pc \in {"loop", "returned"} =>
        LET hits == Hits(idx - 1)
        IN  /\ Len(parameters) = Cardinality(hits)
            /\ \A k \in 1..Len(parameters) :
                 LET i == Nth(hits, k)
                     first == Least(MatchingPatterns(strip(lines[i])))
                 IN  /\ parameters[k].name = DisplayName(first)
                     /\ parameters[k].category = parameter_patterns[first].category
                     /\ parameters[k].extracted_text = strip(lines[i])
                     /\ parameters[k].value = LineValue(i)

\* C4 witness: a processed line matched more than one registry entry.
C4_AmbiguousLineProcessed ==
    /\ pc = "returned"
    /\ \E i \in Hits(Len(lines)) : Cardinality(MatchingPatterns(strip(lines[i]))) >= 2

BloodPressureLine == <<"B","P"," ","1","2","0","/","8","0"," ","m","m","H","g">>

\* C5: for the one-line text 'BP 120/80 mmHg' extract_parameters returns two
\* parameters, Systolic BP with value 120 and Diastolic BP with value 80.
C5_BloodPressureGivesTwo ==
    (pc = "returned" /\ text = BloodPressureLine) =>
        /\ Len(result.value) = 2
        /\ result.value[1].name = "Systolic BP"
        /\ result.value[1].value = FloatValue(Dec(120, 0))
        /\ result.value[2].name = "Diastolic BP"
        /\ result.value[2].value = FloatValue(Dec(80, 0))

\* A list of records without their id fields.
WithoutIds(ps) ==
    [i \in 1..Len(ps) |->
        [name |-> ps[i].name, value |-> ps[i].value, unit |-> ps[i].unit,
         reference_range |-> ps[i].reference_range, status |-> ps[i].status,
         category |-> ps[i].category, extracted_text |-> ps[i].extracted_text]]

\* A call returns while an earlier call on the same text has returned.
SecondReturn == pc = "loop" /\ pc' = "returned" /\ result.returned

\* C6 as claimed: two calls of extract_parameters on the same text return
\* identical outputs in every field of every record, the id included.
C6_SameOutputTwice == [][SecondReturn => result'.value = result.value]_vars

\* C6 as amended: two calls on the same text return outputs that agree in
\* length, order and every field except the freshly generated id.
C6_SameOutputExceptIds ==
    [][SecondReturn => WithoutIds(result'.value) = WithoutIds(result.value)]_vars

\* C6 witness: two calls have returned and the output is not empty.
C6_CalledTwice == pc = "returned" /\ calls >= 2 /\ Len(result.value) >= 1

\* C10: a line shorter than 5 characters contributes no parameter, and a line
\* of 5 or more characters after trimming that matches a pattern does.
C10_ShortLinesSkipped ==
    pc \in {"loop", "returned"} =>
        /\ \A i \in 1..(idx - 1) :
             Len(lines[i]) < 5 =>
                 \A k \in 1..Len(parameters) : parameters[k].extracted_text # lines[i]
        /\ \A k \in 1..Len(parameters) : Len(parameters[k].extracted_text) >= 5
        /\ \A i \in 1..(idx - 1) :
             (Len(strip(lines[i])) >= 5 /\ MatchingPatterns(strip(lines[i])) # {}) =>
                 \E k \in 1..Len(parameters) :
                     parameters[k].extracted_text = strip(lines[i])

\* C10 witness: a 4-character line that a pattern matches was skipped and a
\* line of exactly 5 characters after trimming gave a parameter.
C10_ShortAndFiveProcessed ==
    /\ pc = "returned"
    /\ \E i \in 1..Len(lines) : Len(lines[i]) = 4 /\ MatchingPatterns(lines[i]) # {}
    /\ \E k \in 1..Len(parameters) : Len(parameters[k].extracted_text) = 5

(***************************************************************************)
(* Claims about _create_parameter, checked under SpecCreate.               *)
(***************************************************************************)
\* The unit token the entry's pattern captures on the probe's line (None when
\* the optional unit group does not take part in the match).
Captured ==
    LET m == re_search(PatternOf(probe.param_name).pattern, probe.line)
    IN  IF m.ok /\ lastindex(m) > 1 THEN group(m, probe.line, 2) ELSE None

\* The status the range [min, max] gives the reading v, all in thousandths.
StatusByRange(min, max, v) ==
    IF 2 * v < min \/ v > 2 * max THEN "critical"
    ELSE IF v < min THEN "low"
    ELSE IF v > max THEN "high"
    ELSE "normal"

ValueCreated == probe # <<>> /\ probe.kind = "value" /\ created # <<>>

UnitCreated == probe # <<>> /\ probe.kind = "unit" /\ created # <<>>

\* C2: for a registered identifier with range [min, max] and a reading v, the
\* status is critical if v < 0.5*min or v > 2*max, low if 0.5*min <= v < min,
\* high if max < v <= 2*max, normal if min <= v <= max, whatever unit or text
\* follows the reading on the line.
C2_StatusFromRangeAndValue ==
    ValueCreated =>
        LET r == reference_ranges[probe.param_name]
        IN  /\ created[1].value.isfloat
            /\ Thousandths(created[1].value.f) = Thousandths(probe.v)
            /\ created[1].status = StatusByRange(Thousandths(r.min), Thousandths(r.max),
                                                 Thousandths(probe.v))

\* C2 witness: a reading of exactly half the minimum has been classified low,
\* on a line that continues after the reading.
C2_HalfMinimumIsLow ==
    /\ ValueCreated
    /\ Thousandths(reference_ranges[probe.param_name].min) > 0
    /\ 2 * Thousandths(probe.v) = Thousandths(reference_ranges[probe.param_name].min)
    /\ Captured # None
    /\ created[1].status = "low"

CanonicalOf(s) ==
    unit_normalizations[CHOOSE k \in 1..Len(unit_normalizations) :
                            s \in CaseVariants(unit_normalizations[k][1])][2]

\* C9: every letter-case variant of an alias key, with or without whitespace
\* around it, is output as that alias's canonical form.
C9_AliasVariantsCanonical ==
    (UnitCreated /\ Captured # None
        /\ \E k \in AliasKeys : Captured \in CaseVariants(k))
        => created[1].unit = CanonicalOf(Captured)

(***************************************************************************)
(* Claims about extract_text_from_file, checked under SpecOcr.             *)
(***************************************************************************)
AllPdfTiersRaised ==
    /\ ocr_pc = "done"
    /\ tier["pdfplumber"] = "raised"
    /\ tier["PyPDF2"] = "raised"
    /\ tier["ocr"] = "raised"

\* C7: when the embedded text layer, the secondary decoder and
\* rasterize-then-OCR have all raised for a PDF, extract_text_from_file raises
\* an extraction-failed error that carries the last underlying cause; it does
\* not return text.
C7_AllTiersRaisedIsAnError ==
    AllPdfTiersRaised =>
        /\ outcome.kind = "raised"
        /\ outcome.error[1].type = "FileUploadError"
        /\ outcome.error[1].cause \in {<<LibraryError["pdf2image"]>>,
                                        <<LibraryError["pytesseract"]>>}

\* sub occurs in s as a run of consecutive characters.
Contains(s, sub) ==
    \/ Len(sub) = 0
    \/ \E i \in 1..(Len(s) - Len(sub) + 1) : SubSeq(s, i, i + Len(sub) - 1) = sub

Ended(t) == tier[t] \in {"returned", "raised"}

\* The call for a PDF is over and both text-layer tiers ran and left fewer than
\* MinTextLength characters after trimming.
BothTextLayersShort ==
    /\ ocr_pc = "done"
    /\ file_ext = PdfExtension
    /\ Ended("pdfplumber") /\ Ended("PyPDF2")
    /\ Len(strip(tier_text["pdfplumber"])) < 50
    /\ Len(strip(tier_text["PyPDF2"])) < 50

\* C12: for a PDF whose two text-layer tiers both yield fewer than 50 trimmed
\* characters, the returned text is the output of rasterize-then-OCR only; none
\* of the short text of the earlier tiers appears in it.
C12_OnlyOcrOutputReturned ==
    BothTextLayersShort =>
        /\ Ended("ocr")
        /\ outcome.kind = "returned"
        /\ outcome.text = strip(tier_text["ocr"])
        /\ ~Contains(outcome.text, PageText["pdfplumber"]["short"])
        /\ ~Contains(outcome.text, PageText["PyPDF2"]["short"])

\* C12 witness: both text-layer tiers left some short text, OCR returned text
\* and the call returned.
C12_ShortTextThenOcr ==
    /\ BothTextLayersShort
    /\ tier["pdfplumber"] = "returned" /\ tier_text["pdfplumber"] # <<>>
    /\ tier["PyPDF2"] = "returned" /\ tier_text["PyPDF2"] # <<>>
    /\ tier["ocr"] = "returned"
    /\ outcome.text # <<>>

\* C13: when OCR raises on a page of a rasterized PDF after other pages were
\* OCR'd successfully, extract_text_from_file raises nothing and returns the
\* text of the successful pages with their page markers.
C13_SuccessfulPagesReturned ==
    (ocr_pc = "done" /\ tier["ocr"] = "raised" /\ extracted_text # <<>>) =>
        /\ outcome.kind = "returned"
        /\ Contains(outcome.text, strip(extracted_text))

\* The extension of the path, lower-cased, is none of .pdf, .jpg, .jpeg, .png.
UnsupportedExtension ==
    lower(file_path) \notin {<<".","p","d","f">>, <<".","j","p","g">>,
                             <<".","j","p","e","g">>, <<".","p","n","g">>}

\* C15: for a path whose extension, compared case-insensitively, is not .pdf,
\* .jpg, .jpeg or .png, extract_text_from_file raises an error that names the
\* unsupported type, at once: no PDF reader, rasterizer or OCR call is made.
C15_UnsupportedFailsFast ==
    (ocr_pc # "called" /\ UnsupportedExtension) =>
        /\ ocr_pc = "done"
        /\ outcome.kind = "raised"
        /\ outcome.error[1].cause = <<UnsupportedFileType(lower(file_path))>>
        /\ Contains(outcome.error[1].detail, UnsupportedFileType(lower(file_path)).detail)
        /\ \A t \in Tiers : tier[t] = "not_run"

\* C15 witness: the call for a .txt path has raised.
C15_TxtRejected ==
    /\ ocr_pc = "done"
    /\ file_path = <<".","t","x","t">>
    /\ outcome.kind = "raised"

\* C16: the error raised for an unsupported extension reaches the caller as
\* the unsupported-type error, a different kind of error from the one that
\* reports a failed text extraction.
C16_UnsupportedNotExtractionFailure ==
    (ocr_pc = "done" /\ UnsupportedExtension) =>
        /\ outcome.kind = "raised"
        /\ outcome.error[1] = UnsupportedFileType(lower(file_path))
        /\ \A lib \in DOMAIN LibraryError, status \in StatusPrefixes :
              LET failure == TextExtractionFailed(OcrFailed(LibraryError[lib], status), status)
              IN  \/ outcome.error[1].type # failure.type
                  \/ SubSeq(outcome.error[1].detail, 1, 23) # SubSeq(failure.detail, 1, 23)

\* The number of characters tier t left in `text`, after trimming.
Yield(t) == Len(strip(tier_text[t]))

\* C18: the secondary decoder runs only if the first tier's trimmed text is
\* shorter than 50 characters, and rasterize-then-OCR only if the trimmed text
\* held after the second tier is shorter than 50; when a tier yields at least
\* 50 characters no later tier is invoked and its text is what is returned.
C18_TiersGatedByLength ==
    /\ tier["PyPDF2"] # "not_run" => (Ended("pdfplumber") /\ Yield("pdfplumber") < 50)
    /\ tier["ocr"] # "not_run" => (Ended("PyPDF2") /\ Yield("PyPDF2") < 50)
    /\ (Ended("pdfplumber") /\ Yield("pdfplumber") >= 50) =>
          /\ tier["PyPDF2"] = "not_run" /\ tier["ocr"] = "not_run"
          /\ ocr_pc = "done" => outcome = ReturnedText(strip(tier_text["pdfplumber"]))
    /\ (Ended("PyPDF2") /\ Yield("PyPDF2") >= 50) =>
          /\ tier["ocr"] = "not_run"
          /\ ocr_pc = "done" => outcome = ReturnedText(strip(tier_text["PyPDF2"]))

\* C18 witness: the first tier left 49 characters, the second exactly 50, and
\* the call returned the second tier's text without running OCR.
C18_SecondTierSufficed ==
    /\ ocr_pc = "done"
    /\ Ended("pdfplumber") /\ Yield("pdfplumber") = 49
    /\ Ended("PyPDF2") /\ Yield("PyPDF2") = 50
    /\ tier["ocr"] = "not_run"
    /\ outcome.kind = "returned"
    /\ Len(outcome.text) = 50

\* C19 (as stated): when the first tier raises at any point, the exception
\* does not propagate and the next tier is attempted.
C19_RaiseMeansNextTier ==
    (ocr_pc = "done" /\ tier["pdfplumber"] = "raised") =>
        /\ outcome.kind = "returned"
        /\ tier["PyPDF2"] # "not_run"

\* C19 (amended): when the first tier raises at any point, the exception does
\* not propagate; the text gathered before it is kept, and the next tier is
\* attempted exactly when that text, trimmed, is shorter than 50 characters.
C19_RaiseKeepsGatheredText ==
    (ocr_pc = "done" /\ tier["pdfplumber"] = "raised") =>
        /\ outcome.kind = "returned"
        /\ tier["PyPDF2"] # "not_run" <=> Yield("pdfplumber") < 50
        /\ Yield("pdfplumber") >= 50 => outcome.text = strip(tier_text["pdfplumber"])

\* C19 witness: the first tier raised after gathering 50 characters and the
\* call returned them without attempting the second tier.
C19_RaisedAfterEnoughText ==
    /\ ocr_pc = "done"
    /\ tier["pdfplumber"] = "raised"
    /\ Yield("pdfplumber") >= 50
    /\ tier["PyPDF2"] = "not_run"
    /\ outcome.kind = "returned"

(***************************************************************************)
(* Claims about extract_parameters when a construction can raise, checked  *)
(* under SpecFault.                                                        *)
(***************************************************************************)
\* C11: extract_parameters raises no exception for any text, and for empty or
\* whitespace-only text it returns the empty list.
C11_NeverRaisesEmptyForBlank ==
    /\ pc # "raised"
    /\ pc = "returned" => result.returned
    /\ (pc = "returned" /\ strip(text) = <<>>) => result.value = <<>>

\* C11 witness: a call on a non-empty text of whitespace only has returned the
\* empty list.
C11_BlankTextReturned ==
    /\ pc = "returned"
    /\ Len(text) > 0
    /\ strip(text) = <<>>
    /\ result.returned
    /\ result.value = <<>>

\* The registry entries, by index, whose pattern matches the line at index i.
MatchingAt(i) == MatchingPatterns(strip(lines[i]))

\* The for loop is about to process a line whose first matching entry is one
\* for which building the HealthParameter raises.
FirstMatchFails ==
    /\ pc = "loop"
    /\ idx <= Len(lines)
    /\ ~SkipLine(strip(lines[idx]))
    /\ MatchingAt(idx) # {}
    /\ parameter_patterns[Least(MatchingAt(idx))].name \in failing

DisallowedAnswered ==
    /\ upload_pc = "responded"
    /\ file.named
    /\ lower(file.ext) \notin allowed_extensions

\* C17 (as the spec states it): an upload whose extension is not allowed is
\* answered with status 400, and no file is written, no report is stored and
\* no background task is added.
C17_DisallowedRejectedWith400 ==
    DisallowedAnswered =>
        /\ response = 400
        /\ disk = {}
        /\ db = <<>>
        /\ tasks = <<>>
        /\ task_pc = "idle"

\* extract_text_from_file or extract_parameters raised in this run of
\* process_uploaded_file.
PipelineRaised == caught # <<>> /\ caught[1].type \in {"FileUploadError", "MemoryError"}

\* The handler of line 104 read the report back and its update was stored.
HandlerStored == db_log[Len(db_log)] = DbCall("update_report", TRUE)

\* The stored report is marked failed with the text of the exception caught.
StoredAsFailed ==
    /\ db[1].processing_status = "failed"
    /\ db[1].error_message = Str(caught[1], str_prefix)

C21_RegistryErrorPropagates ==
    [][FirstMatchFails => pc' = "raised"]_vars

(***************************************************************************)
(* Claims about the resources of extract_text_from_file, under SpecOcr.    *)
(***************************************************************************)
\* C22 (as the spec states it): when extract_text_from_file has returned or
\* raised, every file and image it acquired has been released.
C22_AllReleasedAtExit ==
    ocr_pc = "done" => held = {}

(***************************************************************************)
(* Claims about the page markers of _ocr_pdf_pages, under SpecRaster.      *)
(***************************************************************************)
\* The text '--- Page ' that starts a page marker.
MarkerHead == <<"-","-","-"," ","P","a","g","e"," ">>

\* The positions of a text at which a page marker starts.
MarkerStarts(t) ==
    {i \in 1..Len(t) : i + Len(MarkerHead) - 1 <= Len(t)
                        /\ SubSeq(t, i, i + Len(MarkerHead) - 1) = MarkerHead}

\* The number written in decimal digits at position i of a text.
RECURSIVE NumberAt(_, _, _)
NumberAt(t, i, acc) ==
    IF i <= Len(t) /\ \E d \in 0..9 : t[i] = Digits[d + 1]
    THEN NumberAt(t, i + 1, 10 * acc + (CHOOSE d \in 0..9 : t[i] = Digits[d + 1]))
    ELSE acc

\* The page numbers of the markers of a text, in the order of the text.
MarkerPages(t) ==
    [k \in 1..Cardinality(MarkerStarts(t)) |->
        NumberAt(t, Nth(MarkerStarts(t), k) + Len(MarkerHead), 0)]

\* One page of the OCR loop has just been processed.
OcrStep == ocr_pc = "ocr_pages" /\ page' = page + 1

\* C23: a page processed by the OCR loop is one of the first 10; when its text
\* is not blank the output grows by the marker '--- Page N ---' with N the
\* page's 1-based number, followed by the text, and otherwise the output is
\* left as it is; and the markers of the text that _ocr_pdf_pages returns
\* carry strictly increasing page numbers, none above 10.
C23_MarkersNumberPagesInOrder ==
    /\ [][OcrStep =>
            /\ page <= 10
            /\ IF strip(ocr_page_text') # <<>>
               THEN extracted_text' =
                        extracted_text \o <<"\n">> \o MarkerHead \o NatToStr(page)
                            \o <<" ","-","-","-","\n">> \o strip(ocr_page_text') \o <<"\n">>
               ELSE extracted_text' = extracted_text]_vars
    /\ []((ocr_pc = "pdf_return" /\ tier["ocr"] = "returned") =>
            LET m == MarkerPages(pdf_text)
            IN  \A k \in 1..Len(m) :
                    /\ m[k] \in 1..10
                    /\ k > 1 => m[k - 1] < m[k])

\* C23 witness: a PDF of 11 pages was rasterized and OCRed; some pages gave no
\* text, and the returned text ends with the text of page 10 under its marker.
C23_ElevenPagesTenProcessed ==
    /\ ocr_pc = "pdf_return"
    /\ tier["ocr"] = "returned"
    /\ pages = 11
    /\ page = 11
    /\ Len(MarkerPages(pdf_text)) \in 2..9
    /\ MarkerPages(pdf_text)[Len(MarkerPages(pdf_text))] = 10
    /\ MarkerPages(pdf_text)[1] = 2

(***************************************************************************)
(* Claims about the end of process_uploaded_file, under SpecUpload.        *)
(***************************************************************************)
\* The update of line 76 was stored: the third DataService call of the task,
\* after get_report and the update to PROCESSING, is an update that worked.
CompletedPersisted == Len(db_log) >= 3 /\ db_log[3] = DbCall("update_report", TRUE)

\* The notifications the task asks for, given the parameters it stored.
WantedNotifications == <<ReportReady>> \o HealthAlerts(db[1].parameters)

\* C24: once COMPLETED has been stored for the report, the stored status stays
\* COMPLETED and the stored error_message stays unset, whatever happens to the
\* report-ready notification and the health alerts.
C24_NotificationFailureKeepsCompleted ==
    CompletedPersisted =>
        /\ db[1].processing_status = "completed"
        /\ db[1].error_message = None

\* C24 witness: the task is over, the second health alert was not created
\* because its call raised, and the report is stored as completed.
C24_AlertFailedReportCompleted ==
    /\ task_pc = "done"
    /\ CompletedPersisted
    /\ Len(WantedNotifications) = 3
    /\ notifications = SubSeq(WantedNotifications, 1, 2)
    /\ db[1].processing_status = "completed"

\* upload_file has answered an upload of a valid file for which
\* get_active_profile gave no profile.
NoProfileAnswered ==
    /\ upload_pc = "responded"
    /\ profile_id = None
    /\ _validate_file(file) = <<>>

\* C25 (as the spec states it): an upload of a valid file by a user without an
\* active profile creates the self profile and succeeds: the report is stored
\* with the id of the new profile and the background task is added.
C25_NoProfileUploadSucceeds ==
    NoProfileAnswered =>
        /\ profile_store
        /\ response = 200
        /\ db # <<>>
        /\ db[1].profile_id \in Profiles
        /\ tasks # <<>> \/ task_pc # "idle"

\* C26 (as the spec states it): when the task is over, the stored star status
\* is the one of the last toggle_report_star request that was stored, whenever
\* that request came: no write of the task puts back the value the task read.
C26_StarSurvivesTask ==
    (task_pc = "done" /\ star_request # <<>> /\ db # <<>>) =>
        db[1].is_starred = star_request[1]

\* process_uploaded_file has returned for a report that is stored.
TaskReturned == task_pc = "done" /\ db_log # <<>> /\ db # <<>>

C28_StatusAndPayloadAgree ==
    db # <<>> =>
        /\ db[1].processing_status = "completed" =>
              /\ db[1].error_message = None
              /\ \E ids \in [1..Len(split(db[1].raw_text)) -> UUIDs] :
                    db[1].parameters = extract_parameters(db[1].raw_text, ids)
        /\ db[1].processing_status = "failed" =>
              /\ db[1].error_message # None
              /\ db[1].parameters = <<>>

\* C28 witness: a report is stored as completed with its text and the three
\* parameters extracted from it.
C28_CompletedWithParameters ==
    /\ db # <<>>
    /\ db[1].processing_status = "completed"
    /\ db[1].raw_text # None
    /\ Len(db[1].parameters) = 3

(***************************************************************************)
(* Claims about the registry as a whole.                                   *)
(***************************************************************************)
\* One-line texts that name each registered parameter the way a lab report
\* does, with several spellings for the entries registered after an entry
\* with a similar pattern.
RegistryProbes == {
    <<"G","l","u","c","o","s","e"," ","9","5"," ","m","g","/","d","l">>,
    <<"T","o","t","a","l"," ","C","h","o","l","e","s","t","e","r","o","l"," ","1","8","0"," ","m","g","/","d","l">>,
    <<"C","h","o","l","e","s","t","e","r","o","l"," ","1","8","0">>,
    <<"L","D","L"," ","C","h","o","l","e","s","t","e","r","o","l"," ","1","3","0"," ","m","g","/","d","l">>,
    <<"L","D","L","-","C","h","o","l","e","s","t","e","r","o","l",":"," ","1","3","0">>,
    <<"L","D","L"," ","1","3","0"," ","c","h","o","l","e","s","t","e","r","o","l"," ","1","3","0">>,
    <<"H","D","L"," ","C","h","o","l","e","s","t","e","r","o","l"," ","5","0"," ","m","g","/","d","l">>,
    <<"H","D","L","-","C","h","o","l","e","s","t","e","r","o","l",":"," ","5","0">>,
    <<"T","r","i","g","l","y","c","e","r","i","d","e","s"," ","1","4","0"," ","m","g","/","d","l">>,
    <<"H","e","m","o","g","l","o","b","i","n"," ","1","4"," ","g","/","d","l">>,
    <<"H","e","m","a","t","o","c","r","i","t"," ","4","2"," ","%">>,
    <<"B","P"," ","1","2","0","/","8","0"," ","m","m","H","g">>,
    <<"B","l","o","o","d"," ","P","r","e","s","s","u","r","e",":"," ","1","2","0","/","8","0">>,
    <<"B","P"," ","8","0","/","1","2","0">>,
    <<"C","r","e","a","t","i","n","i","n","e"," ","1",".","0"," ","m","g","/","d","l">>,
    <<"B","U","N"," ","1","5"," ","m","g","/","d","l">>,
    <<"A","L","T"," ","3","0"," ","U","/","L">>,
    <<"A","S","T"," ","3","0"," ","U","/","L">>,
    <<"P","l","a","t","e","l","e","t","s"," ","2","5","0"," ","/","c","u","m","m">>,
    <<"W","B","C"," ","7",".","5"," ","/","c","u","m","m">>,
    <<"R","B","C"," ","4",".","8"," ","/","c","u","m","m">>,
    <<"V","i","t","a","m","i","n"," ","D"," ","3","0"," ","n","g","/","m","l">>,
    <<"V","i","t","a","m","i","n"," ","B","1","2"," ","5","0","0"," ","p","g","/","m","l">>,
    <<"T","S","H"," ","2",".","0"," ","m","I","U","/","L">>}

\* The display names extract_parameters returns for the one-line text l.
NamesFor(l) == Names(extract_parameters(l, <<"uuid-a">>))

\* C29 (as the spec states it): every registered identifier has a line for
\* which extract_parameters returns a parameter with its display name.
C29_EveryEntryProduces ==
    \A k \in 1..Len(parameter_patterns) :
        \E l \in RegistryProbes : DisplayName(k) \in NamesFor(l)

(***************************************************************************)
(* Claims about the notifications of process_uploaded_file.                *)
(***************************************************************************)
\* The parameters of ps that are not normal, in the order of ps.
Abnormal(ps) == SelectSeq(ps, LAMBDA p : p.status \in {"high", "low", "critical"})

\* The task completed the report and none of its notification calls raised.
CompletedAndNotified ==
    /\ task_pc = "done"
    /\ CompletedPersisted
    /\ notification_error = <<>>

\* C30: when the task completed the report and no notification call failed,
\* the notifications created are one report-ready notification followed by
\* one health alert for each stored parameter that is high, low or critical,
\* in the order of the parameters, and nothing else.
C30_ReadyThenAlertsInOrder ==
    CompletedAndNotified =>
        LET bad == Abnormal(db[1].parameters)
        IN  /\ Len(notifications) = 1 + Len(bad)
            /\ notifications[1].type = "report_ready"
            /\ \A i \in 1..Len(bad) :
                  /\ notifications[i + 1].type = "health_alert"
                  /\ notifications[i + 1].parameter = bad[i].name

\* C30 witness: a report with a critical, a normal and a high parameter was
\* completed and notified: two alerts, none for the normal parameter.
C30_TwoAlertsForThreeParameters ==
    /\ CompletedAndNotified
    /\ Len(db[1].parameters) = 3
    /\ db[1].parameters[2].status = "normal"
    /\ Len(notifications) = 3
    /\ notifications[3].parameter = db[1].parameters[3].name

====
